---- MODULE Spec2Model ----
(***************************************************************************)
(* Model of crates/uiautomation/src/variants.rs: the Value enum, the       *)
(* Variant wrapper around the foreign VARIANT union, and the SafeArray     *)
(* handle with its owned flag.                                             *)
(*                                                                         *)
(* The VARIANT payload union is modelled as its eight little-endian bytes, *)
(* so that writing one union member and reading another is what the       *)
(* machine does.  Quantities wider than 31 bits (u32, i64, u64, f32, f64,  *)
(* currency, date) are carried as their little-endian byte tuples.         *)
(* Pointers are small integers: the high byte names the region (array      *)
(* buffer, BSTR, COM object, vtable, stack local), the low byte the index. *)
(***************************************************************************)
EXTENDS Integers, Sequences, FiniteSets, TLC

VARIABLES
    variant,    \* the Variant under study, or NoVariant
    origin,     \* the Value that Variant was constructed from (history)
    handles,    \* the SafeArray handles the program holds, by slot
    arrays,     \* external SAFEARRAY buffers, by address index
    bstrs,      \* external BSTR allocations, by address index
    refs,       \* reference count of the external COM object
    last        \* what the last operation was and what it returned

vars == <<variant, origin, handles, arrays, bstrs, refs, last>>

----------------------------------------------------------------------------
(* Bounds of the model *)

MaxLen == 2     \* longest vector or string given to a constructor
MaxBuf == 3     \* SAFEARRAY buffers the external allocator can hand out
MaxArr == 2     \* SafeArray handles the program holds at one time
MaxStr == 2     \* BSTR allocations the external allocator can hand out
MaxRef == 2     \* references taken on a COM object

----------------------------------------------------------------------------
(* Machine-level helpers: bytes, two's complement, pointers *)

SeqsUpTo(S, n) == UNION {[1..k -> S] : k \in 0..n}

\* byte k (0-based) of the two's complement integer n
ByteOf(n, k) == (n \div (256 ^ k)) % 256

\* the w little-endian bytes of n; bytes past the fourth are the sign extension
LE(n, w) == [k \in 1..w |-> IF k <= 4 THEN ByteOf(n, k - 1)
                                      ELSE IF n < 0 THEN 255 ELSE 0]

AsI8(b) == IF b >= 128 THEN b - 256 ELSE b
AsU8(n) == n % 256
U16(d) == d[1] + 256 * d[2]
S16(d) == IF U16(d) >= 32768 THEN U16(d) - 65536 ELSE U16(d)
S32(d) == d[1] + 256 * d[2] + 65536 * d[3] + 16777216 * AsI8(d[4])

NullPtr == 0
ArrayPtr(i) == 256 + i
BstrPtr(i) == 512 + i
ObjPtr(i) == 768 + i
VtblPtr(i) == 1024 + i
LocalPtr(i) == 1280 + i
\* the address of a word of external memory that holds the interface pointer
\* ObjPtr(i), or null when i = 0
CellPtr(i) == 1536 + i
Region(p) == p \div 256
Index(p) == p % 256
IsArrayPtr(p) == Region(p) = 1 /\ Index(p) \in 1..MaxBuf
IsBstrPtr(p) == Region(p) = 2 /\ Index(p) \in 1..MaxStr
IsObjPtr(p) == Region(p) = 3
IsLocalPtr(p) == Region(p) = 5

\* a pointer-sized union member holds the pointer's eight bytes
PtrBytes(p) == LE(p, 8)
\* a pointer read from the union; bytes that are no address of the model give
\* a wild pointer
PtrOf(d) == IF \A k \in 3..8 : d[k] = 0 THEN U16(d) ELSE 65535

----------------------------------------------------------------------------
(* Results *)

Ok(x) == [ok |-> TRUE, val |-> x]
Err(kind) == [ok |-> FALSE, err |-> kind]
ERR_TYPE == "TypeError"
ERR_NULL_PTR == "NullPointer"
\* the outcome of undefined behaviour that ends in a fault
Fault == Err("AccessViolation")

----------------------------------------------------------------------------
(* UTF-16: BSTR::from(String) encodes, BSTR::to_string decodes (lossy) *)

RECURSIVE EncodeUtf16(_)
EncodeUtf16(s) ==
    IF s = <<>> THEN <<>>
    ELSE LET c == Head(s)
         IN  (IF c >= 65536
              THEN <<55296 + ((c - 65536) \div 1024), 56320 + ((c - 65536) % 1024)>>
              ELSE <<c>>) \o EncodeUtf16(Tail(s))

RECURSIVE DecodeUtf16(_)
DecodeUtf16(u) ==
    IF u = <<>> THEN <<>>
    ELSE LET a == Head(u)
         IN  IF a \in 55296..56319 /\ Len(u) >= 2 /\ u[2] \in 56320..57343
             THEN <<65536 + (a - 55296) * 1024 + (u[2] - 56320)>>
                      \o DecodeUtf16(SubSeq(u, 3, Len(u)))
             ELSE IF a \in 55296..57343
             THEN <<65533>> \o DecodeUtf16(Tail(u))
             ELSE <<a>> \o DecodeUtf16(Tail(u))

----------------------------------------------------------------------------
(* Value: the 27-variant enum, as [tag, v] *)

Val(tag, v) == [tag |-> tag, v |-> v]

NullTags == {"EMPTY", "NULL", "VOID"}
ScalarTags == {"I1", "I2", "I4", "I8", "INT", "UI1", "UI2", "UI4", "UI8", "UINT",
               "R4", "R8", "BOOL", "STRING", "CURRENCY", "DATE"}
ArrayTags == {"SAFEARRAY", "ARRAY"}
ValueTags == NullTags \cup ScalarTags \cup ArrayTags
                 \cup {"UNKNOWN", "DISPATCH", "ERROR", "HRESULT", "VARIANT", "DECIMAL"}

\* payloads of the bounded domain
I1Vals == {-128, -1, 0, 127}
I2Vals == {-32768, -1, 0, 32767}
I4Vals == {-2147483647 - 1, -1, 0, 2147483647}
UI1Vals == {0, 128, 255}
UI2Vals == {0, 65535}
W4Vals == {<<0, 0, 0, 0>>, <<1, 0, 0, 0>>, <<255, 255, 255, 255>>}
W8Vals == {<<0, 0, 0, 0, 0, 0, 0, 0>>, <<0, 0, 0, 0, 1, 0, 0, 0>>,
           <<255, 255, 255, 255, 255, 255, 255, 255>>}
\* IEEE bit patterns of 0.0, 1.5 and a NaN
R4Vals == {<<0, 0, 0, 0>>, <<0, 0, 192, 63>>, <<0, 0, 192, 127>>}
R8Vals == {<<0, 0, 0, 0, 0, 0, 0, 0>>, <<0, 0, 0, 0, 0, 0, 248, 63>>,
           <<0, 0, 0, 0, 0, 0, 248, 127>>}
\* code points: 'H' and one outside the basic plane (a surrogate pair in UTF-16)
Chars == {72, 128512}
Strings == SeqsUpTo(Chars, MaxLen)
\* DECIMAL as <<scale, sign, lo>>
DecVals == {<<0, 0, 0>>, <<2, 128, 5>>}
\* bytes that the unwritten part of a union literal may hold
Pads == {0, 170}

----------------------------------------------------------------------------
(* Variant: the tag and the eight bytes of the payload union *)

NoVariant == [vt |-> "none", data |-> <<>>]

\* a union literal VARIANT_0_0_0 { member: bytes }: the bytes past the member
\* are not written
Union(bytes, pad) == [k \in 1..8 |-> IF k <= Len(bytes) THEN bytes[k] ELSE pad]

Variant_new_null(vt) == [vt |-> vt, data |-> [k \in 1..8 |-> 0]]

Variant_new(vt, value) == [vt |-> vt, data |-> value]

\* the members of the union, as read
bVal(d) == d[1]
cVal(d) == AsI8(d[1])
\* iVal read without its sign
iVal_unsigned(d) == U16(d)
iVal(d) == S16(d)
boolVal(d) == S16(d)
\* the member __OBSOLETE__VARIANT_BOOL, an i16 at the same place as boolVal
OBSOLETE_VARIANT_BOOL(d) == S16(d)
uiVal(d) == U16(d)
lVal(d) == S32(d)
intVal(d) == S32(d)
ulVal(d) == SubSeq(d, 1, 4)
uintVal(d) == SubSeq(d, 1, 4)
fltVal(d) == SubSeq(d, 1, 4)
llVal(d) == d
ullVal(d) == d
dblVal(d) == d
dateVal(d) == d
cyVal(d) == d
bstrVal(d) == PtrOf(d)
pcVal(d) == PtrOf(d)
pdispVal(d) == PtrOf(d)
ppdispVal(d) == PtrOf(d)
ppunkVal(d) == PtrOf(d)
pvarVal(d) == PtrOf(d)
pdecVal(d) == PtrOf(d)
parray(d) == PtrOf(d)

VARIANT_TRUE == -1
VARIANT_FALSE == 0

\* a handle that owns whatever it is made around
SafeArray_new_owning(array, owned) == [array |-> array, owned |-> TRUE]
SafeArray_new(array, owned) == [array |-> array, owned |-> owned]
\* an empty handle slot of the model
NoHandle == [array |-> -1, owned |-> FALSE]

(* impl From<Value> for Variant.  bstr is what BSTR::from(v) returned for a *)
(* STRING, local the address of the arm's binding v for VARIANT and         *)
(* DECIMAL, pad the bytes of the union literal that the arm does not write. *)
FromValue(value, pad, bstr, local) ==
    LET v == value.v
        t == value.tag
    IN  CASE t = "EMPTY" -> Variant_new_null("VT_EMPTY")
          [] t = "NULL" -> Variant_new_null("VT_NULL")
          [] t = "VOID" -> Variant_new_null("VT_VOID")
          [] t = "I1" -> Variant_new("VT_I1", Union(<<AsU8(v)>>, pad))
          [] t = "I2" -> Variant_new("VT_I2", Union(LE(v, 2), pad))
          [] t = "I4" -> Variant_new("VT_I4", Union(LE(v, 4), pad))
          [] t = "I8" -> Variant_new("VT_I8", Union(v, pad))
          [] t = "INT" -> Variant_new("VT_INT", Union(LE(v, 4), pad))
          [] t = "UI1" -> Variant_new("VT_UI1", Union(<<v>>, pad))
          [] t = "UI2" -> Variant_new("VT_UI2", Union(LE(v, 2), pad))
          [] t = "UI4" -> Variant_new("VT_UI4", Union(v, pad))
          [] t = "UI8" -> Variant_new("VT_UI8", Union(v, pad))
          [] t = "UINT" -> Variant_new("VT_UINT", Union(v, pad))
          [] t = "R4" -> Variant_new("VT_R4", Union(v, pad))
          [] t = "R8" -> Variant_new("VT_R8", Union(v, pad))
          [] t = "CURRENCY" -> Variant_new("VT_CY", Union(v, pad))
          [] t = "DATE" -> Variant_new("VT_DATE", Union(v, pad))
          [] t = "STRING" -> Variant_new("VT_BSTR", Union(PtrBytes(bstr), pad))
          [] t = "UNKNOWN" -> Variant_new("VT_UNKNOWN", Union(PtrBytes(v), pad))
          [] t = "DISPATCH" -> Variant_new("VT_DISPATCH", Union(PtrBytes(v), pad))
          [] t = "ERROR" -> Variant_new("VT_ERROR", Union(LE(v, 4), pad))
          [] t = "HRESULT" -> Variant_new("VT_HRESULT", Union(LE(v, 4), pad))
          [] t = "BOOL" -> Variant_new("VT_BOOL",
                 Union(LE(IF v THEN VARIANT_TRUE ELSE VARIANT_FALSE, 2), pad))
          [] t = "VARIANT" -> Variant_new("VT_VARIANT", Union(PtrBytes(local), pad))
          [] t = "DECIMAL" -> Variant_new("VT_DECIMAL", Union(PtrBytes(local), pad))
          [] t = "SAFEARRAY" -> Variant_new("VT_SAFEARRAY", Union(PtrBytes(v.array), pad))
          [] t = "ARRAY" -> Variant_new("VT_SAFEARRAY", Union(PtrBytes(v.array), pad))

----------------------------------------------------------------------------
(* Reading through the pointers of a payload *)

\* BSTR::to_string: a null BSTR is the empty string; a live allocation decodes;
\* anything else is a read of memory the BSTR does not own
ValidBstr(p) == p = NullPtr \/ (IsBstrPtr(p) /\ bstrs[Index(p)].state = "live")
BstrToString(p) ==
    IF p = NullPtr THEN {<<>>}
    ELSE IF ValidBstr(p) THEN {DecodeUtf16(bstrs[Index(p)].units)}
    ELSE Strings

\* the narrow string at p, up to its NUL (such memory comes from outside)
LpstrToString(p) == IF p = NullPtr THEN {<<>>} ELSE Strings

\* the pointer-sized word stored at address p: a COM object starts with the
\* address of its vtable; no other address of the model holds a handle
Deref(p) ==
    IF IsObjPtr(p) THEN {VtblPtr(Index(p))}
    ELSE IF Region(p) = 6 THEN {IF Index(p) = 0 THEN NullPtr ELSE ObjPtr(Index(p))}
    ELSE {}

\* clone of the interface found behind a double pointer: AddRef through it
CloneInterface(tag, w) ==
    IF w = NullPtr THEN {Ok(Val("NULL", <<>>))}
    ELSE IF IsObjPtr(w) THEN {Ok(Val(tag, w))}
    ELSE {Ok(Val(tag, w)), Fault}

\* the Variants and DECIMALs a returned frame's slot may hold when read later
NestedVariants ==
    {Variant_new_null("VT_EMPTY"), Variant_new("VT_I4", Union(LE(1, 4), 0)),
     Variant_new("VT_BOOL", Union(LE(VARIANT_TRUE, 2), 0))}
StaleVariants == NestedVariants \cup {Variant_new("VT_I4", Union(LE(7, 4), 170))}
StaleDecimals == DecVals \cup {<<28, 0, 9>>}

(* impl TryInto<Value> for &Variant: the set of results the call can have *)
(* (one result, unless the arm reads memory that is not what it takes it   *)
(* for).                                                                    *)
TryIntoValue(self) ==
    LET vt == self.vt
        d == self.data
    IN  IF vt = "VT_EMPTY" THEN {Ok(Val("EMPTY", <<>>))}
        ELSE IF vt = "VT_NULL" THEN {Ok(Val("NULL", <<>>))}
        ELSE IF vt = "VT_VOID" THEN {Ok(Val("VOID", <<>>))}
        ELSE IF vt = "VT_I1" THEN {Ok(Val("I1", AsI8(bVal(d))))}
        ELSE IF vt = "VT_I2" THEN {Ok(Val("I2", iVal(d)))}
        ELSE IF vt = "VT_I4" THEN {Ok(Val("I4", lVal(d)))}
        ELSE IF vt = "VT_I8" THEN {Ok(Val("I8", llVal(d)))}
        ELSE IF vt = "VT_INT" THEN {Ok(Val("INT", lVal(d)))}
        ELSE IF vt = "VT_UI1" THEN {Ok(Val("UI1", bVal(d)))}
        ELSE IF vt = "VT_UI2" THEN {Ok(Val("UI2", uiVal(d)))}
        ELSE IF vt = "VT_UI4" THEN {Ok(Val("UI4", ulVal(d)))}
        ELSE IF vt = "VT_UI8" THEN {Ok(Val("UI8", ullVal(d)))}
        ELSE IF vt = "VT_UINT" THEN {Ok(Val("UINT", uintVal(d)))}
        ELSE IF vt = "VT_R4" THEN {Ok(Val("R4", fltVal(d)))}
        ELSE IF vt = "VT_R8" THEN {Ok(Val("R8", dblVal(d)))}
        ELSE IF vt = "VT_CY" THEN {Ok(Val("CURRENCY", cyVal(d)))}
        ELSE IF vt = "VT_DATE" THEN {Ok(Val("DATE", dateVal(d)))}
        ELSE IF vt = "VT_BSTR" \/ vt = "VT_LPSTR"
        THEN {Ok(Val("STRING", s)) : s \in BstrToString(bstrVal(d))}
                 \cup (IF ValidBstr(bstrVal(d)) THEN {} ELSE {Fault})
        ELSE IF vt = "VT_LPSTR"
        THEN {Ok(Val("STRING", s)) : s \in LpstrToString(pcVal(d))}
        ELSE IF vt = "VT_DISPATCH"
        THEN IF Deref(ppdispVal(d)) = {} THEN {Fault}
             ELSE UNION {CloneInterface("DISPATCH", w) : w \in Deref(ppdispVal(d))}
        ELSE IF vt = "VT_UNKNOWN"
        THEN IF Deref(ppunkVal(d)) = {} THEN {Fault}
             ELSE UNION {CloneInterface("UNKNOWN", w) : w \in Deref(ppunkVal(d))}
        ELSE IF vt = "VT_ERROR" THEN {Ok(Val("HRESULT", intVal(d)))}
        ELSE IF vt = "VT_HRESULT" THEN {Ok(Val("HRESULT", intVal(d)))}
        ELSE IF vt = "VT_BOOL" THEN {Ok(Val("BOOL", OBSOLETE_VARIANT_BOOL(d) # 0))}
        ELSE IF vt = "VT_VARIANT"
        THEN IF IsLocalPtr(pvarVal(d))
             THEN {Ok(Val("VARIANT", g)) : g \in StaleVariants}
             ELSE {Fault}
        ELSE IF vt = "VT_DECIMAL"
        THEN IF IsLocalPtr(pdecVal(d))
             THEN {Ok(Val("DECIMAL", g)) : g \in StaleDecimals}
             ELSE {Fault}
        ELSE IF vt = "VT_SAFEARRAY" \/ vt = "VT_ARRAY"
        THEN {Ok(Val("SAFEARRAY", SafeArray_new(parray(d), FALSE)))}
        ELSE {Err(ERR_TYPE)}

get_value(self) == TryIntoValue(self)

\* is_null without its third comparison
is_null_no_void(self) == self.vt = "VT_EMPTY" \/ self.vt = "VT_NULL"
is_null(self) == self.vt = "VT_EMPTY" \/ self.vt = "VT_NULL" \/ self.vt = "VT_VOID"

is_string(self) == self.vt = "VT_BSTR" \/ self.vt = "VT_LPWSTR" \/ self.vt = "VT_LPSTR"

\* is_array that knows no array tag
is_array_never(self) == FALSE
is_array(self) == self.vt = "VT_SAFEARRAY" \/ self.vt = "VT_ARRAY"

get_string(self) ==
    {IF r.ok /\ r.val.tag = "STRING" THEN Ok(r.val.v)
     ELSE IF r.ok THEN Err(ERR_TYPE) ELSE r : r \in get_value(self)}

get_array(self) ==
    {IF r.ok /\ r.val.tag \in {"SAFEARRAY", "ARRAY"} THEN Ok(r.val.v)
     ELSE IF r.ok THEN Err(ERR_TYPE) ELSE r : r \in get_value(self)}

----------------------------------------------------------------------------
(* The operators Variant::abs .. Variant::xor *)

\* what an external primitive VarAbs, VarAdd, .. can return: a VARIANT, or a
\* failure status
VarArith ==
    {Ok(g) : g \in NestedVariants}
        \cup {Err("DISP_E_TYPEMISMATCH"), Err("DISP_E_OVERFLOW"), Err("DISP_E_DIVBYZERO")}

\* an operator that returns an empty Variant when the primitive fails
Variant_arith_lenient(ext) ==
    IF ext.ok THEN Ok(ext.val) ELSE Ok(Variant_new_null("VT_EMPTY"))
\* the body shared by the eleven operators: `let v = Var..(..)?; Ok(v.into())`,
\* ext being what the primitive returned
Variant_arith(ext) == IF ext.ok THEN Ok(ext.val) ELSE Err(ext.err)

----------------------------------------------------------------------------
(* The coercions impl TryInto<T> for &Variant, T one of twelve primitives *)

Targets == {"bool", "i8", "i16", "i32", "i64", "u8", "u16", "u32", "u64",
            "f32", "f64", "String"}

\* impl From<T> for Variant: the Value variant a primitive of type T goes into
SelfTag(target) ==
    CASE target = "bool" -> "BOOL"
      [] target = "i8" -> "I1"
      [] target = "i16" -> "I2"
      [] target = "i32" -> "I4"
      [] target = "i64" -> "I8"
      [] target = "u8" -> "UI1"
      [] target = "u16" -> "UI2"
      [] target = "u32" -> "UI4"
      [] target = "u64" -> "UI8"
      [] target = "f32" -> "R4"
      [] target = "f64" -> "R8"
      [] target = "String" -> "STRING"

\* the values of type T of the bounded domain
TargetVals(target) ==
    CASE target = "bool" -> BOOLEAN
      [] target = "i8" -> I1Vals
      [] target = "i16" -> I2Vals
      [] target = "i32" -> I4Vals
      [] target \in {"i64", "u64"} -> W8Vals
      [] target = "u8" -> UI1Vals
      [] target = "u16" -> UI2Vals
      [] target = "u32" -> W4Vals
      [] target = "f32" -> R4Vals
      [] target = "f64" -> R8Vals
      [] target = "String" -> Strings

\* the tags that have an arm in the match of a conversion
SourceTags ==
    {"VT_BOOL", "VT_CY", "VT_DATE", "VT_DECIMAL", "VT_DISPATCH", "VT_I1", "VT_I2",
     "VT_I4", "VT_INT", "VT_I8", "VT_R4", "VT_R8", "VT_BSTR", "VT_LPWSTR",
     "VT_LPSTR", "VT_UI1", "VT_UI2", "VT_UI4", "VT_UINT", "VT_UI8"}

\* what the VT_DISPATCH arm gives for a null handle: VARIANT_FALSE != 0, 0i8,
\* `0 as _`, BSTR::default().to_string()
Zero_one(target) ==
    CASE target = "bool" -> TRUE
      [] target \in {"i8", "i16", "i32", "u8", "u16"} -> 1
      [] target \in {"u32", "f32"} -> <<1, 0, 0, 0>>
      [] target \in {"i64", "u64", "f64"} -> <<1, 0, 0, 0, 0, 0, 0, 0>>
      [] target = "String" -> <<72>>
Zero(target) ==
    CASE target = "bool" -> VARIANT_FALSE # 0
      [] target \in {"i8", "i16", "i32", "u8", "u16"} -> 0
      [] target \in {"u32", "f32"} -> <<0, 0, 0, 0>>
      [] target \in {"i64", "u64", "f64"} -> <<0, 0, 0, 0, 0, 0, 0, 0>>
      [] target = "String" -> <<>>

\* the arm with no shortcut
DirectRead_none(target, self) == {}
\* the arms that read the payload themselves: the value read, or nothing when
\* the conversion has no such arm for the tag
DirectRead(target, self) ==
    LET vt == self.vt
        d == self.data
    IN  CASE target = "bool" /\ vt = "VT_BOOL" -> {boolVal(d) # 0}
          [] target = "i8" /\ vt = "VT_I1" -> {AsI8(bVal(d))}
          [] target = "i16" /\ vt = "VT_I2" -> {iVal(d)}
          [] target = "i32" /\ vt \in {"VT_I4", "VT_INT"} -> {lVal(d)}
          [] target = "i64" /\ vt \in {"VT_I4", "VT_INT"} -> {LE(lVal(d), 8)}
          [] target = "i64" /\ vt = "VT_I8" -> {llVal(d)}
          [] target = "f32" /\ vt = "VT_R4" -> {fltVal(d)}
          [] target = "f64" /\ vt = "VT_R8" -> {dblVal(d)}
          [] target = "u8" /\ vt = "VT_UI1" -> {bVal(d)}
          [] target = "u16" /\ vt = "VT_UI2" -> {uiVal(d)}
          [] target = "u32" /\ vt \in {"VT_UI4", "VT_UINT"} -> {ulVal(d)}
          [] target = "u64" /\ vt \in {"VT_I4", "VT_INT"} -> {LE(lVal(d), 8)}
          [] target = "u64" /\ vt = "VT_UI8" -> {ullVal(d)}
          [] OTHER -> {}

\* the external routine Var<T>From<S>: a value of T, or a failure status that
\* `?` turns into an error
VarFrom(target) == {Ok(x) : x \in TargetVals(target)} \cup {Err("ExternalError")}

\* variant_as_i1!: the routine is given PSTR::null() as the place for its
\* result, which is then read through the same null pointer
variant_as_i1 == {Fault, Err("ExternalError")}

(* impl TryInto<T> for &Variant: the outcomes of the call, each with whether *)
(* an external conversion routine was called (ext) and the result (res).     *)
TryIntoPrim(target, self) ==
    LET vt == self.vt
        d == self.data
        direct == DirectRead(target, self)
        conv == IF target = "i8" THEN variant_as_i1 ELSE VarFrom(target)
        called(S) == {[ext |-> TRUE, res |-> r] : r \in S}
        plain(S) == {[ext |-> FALSE, res |-> r] : r \in S}
    IN  IF target = "String" /\ is_string(self) THEN plain(get_string(self))
        ELSE IF direct # {} THEN plain({Ok(x) : x \in direct})
        ELSE IF vt = "VT_DISPATCH"
        THEN IF pdispVal(d) = NullPtr THEN plain({Ok(Zero(target))})
             ELSE called(conv \cup (IF IsObjPtr(pdispVal(d)) THEN {} ELSE {Fault}))
        ELSE IF vt \in {"VT_BSTR", "VT_LPWSTR", "VT_LPSTR"}
        THEN UNION {IF r.ok THEN called(conv) ELSE plain({r}) : r \in get_string(self)}
        ELSE IF vt \in SourceTags THEN called(conv)
        ELSE plain({Err(ERR_TYPE)})

----------------------------------------------------------------------------
(* The external SAFEARRAY buffers and the primitives that act on them *)

\* a buffer: its descriptor (element tag, dimension count, lower bound of
\* dimension 1), its elements as byte tuples, how many times it was handed to
\* SafeArrayDestroy, and whether a handle that owned it has been dropped
UnusedBuf == [state |-> "unused", vt |-> "VT_EMPTY", dims |-> 0, lower |-> 0,
              elems |-> <<>>, destroys |-> 0, dropped |-> FALSE]

ElemSize(vt) ==
    CASE vt \in {"VT_I1", "VT_UI1"} -> 1
      [] vt \in {"VT_I2", "VT_UI2", "VT_BOOL"} -> 2
      [] vt \in {"VT_I4", "VT_INT", "VT_UI4", "VT_UINT", "VT_R4", "VT_ERROR"} -> 4
      [] OTHER -> 8

Live(heap, p) == IsArrayPtr(p) /\ heap[Index(p)].state = "live"

FreeBufs(heap) == {i \in 1..MaxBuf : heap[i].state = "unused"}
NextBuf(heap) == CHOOSE i \in FreeBufs(heap) : \A j \in FreeBufs(heap) : i <= j

\* the pointers an allocating primitive can return: null when it fails
AllocResults(heap) ==
    {NullPtr} \cup (IF FreeBufs(heap) = {} THEN {} ELSE {ArrayPtr(NextBuf(heap))})

\* SafeArrayCreateVector(vt, 0, len) having returned p: len zeroed elements
SafeArrayCreateVector(heap, p, vt, len) ==
    [heap EXCEPT ![Index(p)] =
        [state |-> "live", vt |-> vt, dims |-> 1, lower |-> 0,
         elems |-> [k \in 1..len |-> [b \in 1..ElemSize(vt) |-> 0]],
         destroys |-> 0, dropped |-> FALSE]]

\* a copy of the descriptor without the elements
SafeArrayCopy_shallow(heap, src, p) ==
    [heap EXCEPT ![Index(p)] =
        [heap[Index(src)] EXCEPT !.state = "live", !.destroys = 0,
                                 !.dropped = FALSE, !.elems = <<>>]]
\* SafeArrayCopy(src) having returned p: same descriptor, same elements
SafeArrayCopy(heap, src, p) ==
    [heap EXCEPT ![Index(p)] =
        [heap[Index(src)] EXCEPT !.state = "live", !.destroys = 0, !.dropped = FALSE]]

\* SafeArrayDestroy(p): a live buffer is freed; one already freed is freed again
SafeArrayDestroy(heap, p) ==
    IF ~IsArrayPtr(p) THEN heap
    ELSE [heap EXCEPT ![Index(p)] =
            [@ EXCEPT !.state = "destroyed", !.elems = <<>>,
                      !.destroys = IF @ < 2 THEN @ + 1 ELSE @]]

\* SafeArrayPutElement(p, [index], pv): copies one element's bytes from pv; it
\* reports failure, and writes nothing, for an index out of bounds and for an
\* element it cannot copy (the empty tuple in the model)
InBounds(heap, p, index) ==
    /\ Live(heap, p)
    /\ heap[Index(p)].dims = 1
    /\ index >= heap[Index(p)].lower
    /\ index < heap[Index(p)].lower + Len(heap[Index(p)].elems)

\* a write that does not reach the buffer
SafeArrayPutElement_lost(heap, p, index, bytes) == heap
SafeArrayPutElement(heap, p, index, bytes) ==
    IF ~InBounds(heap, p, index) \/ bytes = <<>> THEN heap
    ELSE [heap EXCEPT ![Index(p)].elems[index - heap[Index(p)].lower + 1] =
            [b \in 1..ElemSize(heap[Index(p)].vt) |->
                IF b <= Len(bytes) THEN bytes[b] ELSE 0]]

\* SafeArrayGetElement(p, [index], pv): copies one element out; it reports
\* failure for an index out of bounds and for an element it cannot copy (such
\* an element is the empty tuple in the model)
SafeArrayGetElement(heap, p, index) ==
    IF InBounds(heap, p, index) /\ heap[Index(p)].elems[index - heap[Index(p)].lower + 1] # <<>>
    THEN Ok(heap[Index(p)].elems[index - heap[Index(p)].lower + 1])
    ELSE Err("ExternalError")

----------------------------------------------------------------------------
(* SafeArray: a handle [array, owned] *)

\* what into_vector can give through a pointer to a destroyed buffer: a fault,
\* or whatever the freed memory holds
Dangling(var_type) ==
    {Fault, Err(ERR_TYPE), Ok(<<>>), Ok(<<[b \in 1..ElemSize(var_type) |-> 170]>>)}

get_var_type(heap, self) ==
    IF Live(heap, self.array) THEN Ok(heap[Index(self.array)].vt)
    ELSE Err("ExternalError")

\* a dimension count that is always 1
get_dim_one(heap, self) == 1
get_dim(heap, self) ==
    IF Live(heap, self.array) THEN heap[Index(self.array)].dims ELSE 0

\* a lower bound that is always 0
get_lower_bound_zero(heap, self, dimension) ==
    IF Live(heap, self.array) /\ dimension \in 1..heap[Index(self.array)].dims
    THEN Ok(0)
    ELSE Err("ExternalError")
get_lower_bound(heap, self, dimension) ==
    IF Live(heap, self.array) /\ dimension \in 1..heap[Index(self.array)].dims
    THEN Ok(heap[Index(self.array)].lower)
    ELSE Err("ExternalError")

\* get_upper_bound giving the index one past the last element
get_upper_bound_exclusive(heap, self, dimension) ==
    IF Live(heap, self.array) /\ dimension \in 1..heap[Index(self.array)].dims
    THEN Ok(heap[Index(self.array)].lower + Len(heap[Index(self.array)].elems))
    ELSE Err("ExternalError")

get_upper_bound(heap, self, dimension) ==
    IF Live(heap, self.array) /\ dimension \in 1..heap[Index(self.array)].dims
    THEN Ok(heap[Index(self.array)].lower + Len(heap[Index(self.array)].elems) - 1)
    ELSE Err("ExternalError")

get_element(heap, self, index) == SafeArrayGetElement(heap, self.array, index)

\* a + sign * b in i32, computed on 16-bit halves: the wrapped result, and
\* whether the exact result is outside the i32 range
ArithI32(a, sign, b) ==
    LET lo == (a % 65536) + sign * (b % 65536)
        hi == (a \div 65536) + sign * (b \div 65536) + (lo \div 65536)
    IN  [overflow |-> hi \notin -32768..32767,
         val |-> (((hi + 32768) % 65536) - 32768) * 65536 + (lo % 65536)]

\* Vec::with_capacity((upper - lower + 1) as _): an i32 operation that
\* overflows panics in a build with overflow checks and wraps in one without;
\* a negative count converts to a usize above isize::MAX, and the allocation
\* panics with a capacity overflow
with_capacity(lower, upper) ==
    LET diff == ArithI32(upper, -1, lower)
        count == ArithI32(diff.val, 1, 1)
    IN  (IF diff.overflow \/ count.overflow THEN {Err("panic")} ELSE {})
            \cup {IF count.val < 0 THEN Err("panic") ELSE Ok(count.val)}

\* the loop of into_vector: the elements at lower..=upper in order, or the
\* first error
RECURSIVE CollectElements(_, _, _, _)
CollectElements(heap, self, i, upper) ==
    IF i > upper THEN Ok(<<>>)
    ELSE LET v == get_element(heap, self, i)
         IN  IF ~v.ok THEN v
             ELSE LET rest == CollectElements(heap, self, i + 1, upper)
                  IN  IF rest.ok THEN Ok(<<v.val>> \o rest.val) ELSE rest

\* the set of results of into_vector(var_type); one result unless the pointer
\* dangles
into_vector(heap, self, var_type) ==
    IF IsArrayPtr(self.array) /\ heap[Index(self.array)].state = "destroyed"
    THEN Dangling(var_type)
    ELSE IF ~get_var_type(heap, self).ok THEN {get_var_type(heap, self)}
    ELSE IF get_var_type(heap, self).val # var_type THEN {Err(ERR_TYPE)}
    ELSE IF get_dim(heap, self) # 1 THEN {Err(ERR_TYPE)}
    ELSE LET lower == get_lower_bound(heap, self, 1)
             upper == get_upper_bound(heap, self, 1)
         IN  IF ~lower.ok THEN {lower}
             ELSE IF ~upper.ok THEN {upper}
             ELSE {c \in with_capacity(lower.val, upper.val) : ~c.ok}
                      \cup (IF \E c \in with_capacity(lower.val, upper.val) : c.ok
                            THEN {CollectElements(heap, self, lower.val, upper.val)}
                            ELSE {})

\* get_interface returning the element as it is, null or not
get_interface_unchecked(heap, self, index) ==
    LET r == SafeArrayGetElement(heap, self.array, index)
    IN  IF ~r.ok THEN r ELSE Ok(PtrOf(r.val))
\* SafeArray::get_interface(index): the element is read into an Option<T>, and
\* None is the NullPointer error
get_interface(heap, self, index) ==
    LET r == SafeArrayGetElement(heap, self.array, index)
    IN  IF ~r.ok THEN r
        ELSE IF PtrOf(r.val) = NullPtr THEN Err(ERR_NULL_PTR)
        ELSE Ok(PtrOf(r.val))

\* the loop of into_interface_vector: the handles at lower..=upper in order, or
\* the first error, the handles pushed so far being dropped with the vector
RECURSIVE CollectInterfaces(_, _, _, _)
CollectInterfaces(heap, self, i, upper) ==
    IF i > upper THEN Ok(<<>>)
    ELSE LET v == get_interface(heap, self, i)
         IN  IF ~v.ok THEN v
             ELSE LET rest == CollectInterfaces(heap, self, i + 1, upper)
                  IN  IF rest.ok THEN Ok(<<v.val>> \o rest.val) ELSE rest

\* the set of results of into_interface_vector(); one result unless the
\* pointer dangles
into_interface_vector(heap, self) ==
    IF IsArrayPtr(self.array) /\ heap[Index(self.array)].state = "destroyed"
    THEN {Fault, Err(ERR_TYPE), Err(ERR_NULL_PTR), Ok(<<>>)}
    ELSE IF ~get_var_type(heap, self).ok THEN {get_var_type(heap, self)}
    ELSE IF get_var_type(heap, self).val \notin {"VT_UNKNOWN", "VT_DISPATCH"}
    THEN {Err(ERR_TYPE)}
    ELSE IF get_dim(heap, self) # 1 THEN {Err(ERR_TYPE)}
    ELSE LET lower == get_lower_bound(heap, self, 1)
             upper == get_upper_bound(heap, self, 1)
         IN  IF ~lower.ok THEN {lower}
             ELSE IF ~upper.ok THEN {upper}
             ELSE {c \in with_capacity(lower.val, upper.val) : ~c.ok}
                      \cup (IF \E c \in with_capacity(lower.val, upper.val) : c.ok
                            THEN {CollectInterfaces(heap, self, lower.val, upper.val)}
                            ELSE {})

\* the loop of from_vector on the array new_vector returned at p; it ends at
\* the first write the primitive fails
RECURSIVE PutAll(_, _, _, _)
PutAll(heap, p, src, i) ==
    IF i >= Len(src) \/ src[i + 1] = <<>> THEN heap
    ELSE PutAll(SafeArrayPutElement(heap, p, i, src[i + 1]), p, src, i + 1)

\* the heap after from_vector(var_type, src), new_vector having returned p
from_vector(heap, p, var_type, src) ==
    PutAll(SafeArrayCreateVector(heap, p, var_type, Len(src)), p, src, 0)

\* a clone that never copies
CloneCopies_never(self) == FALSE
\* impl Clone for SafeArray: whether it calls SafeArrayCopy
CloneCopies(self) == self.owned /\ self.array # NullPtr

\* a clone that always owns what it points to
CloneHandleOf_owning(self, p) ==
    [array |-> IF CloneCopies(self) THEN p ELSE self.array, owned |-> TRUE]
\* the handle clone returns, SafeArrayCopy having returned p when it was called
CloneHandleOf(self, p) ==
    [array |-> IF CloneCopies(self) THEN p ELSE self.array, owned |-> self.owned]

\* a drop that never destroys
DropDestroys_never(self) == FALSE
\* impl Drop for SafeArray: whether it calls SafeArrayDestroy
DropDestroys(self) == self.owned /\ self.array # NullPtr

\* the heap after the drop of self; dropped records that a handle which owned
\* the buffer is gone
DropArray(heap, self) ==
    LET after == IF DropDestroys(self) THEN SafeArrayDestroy(heap, self.array)
                 ELSE heap
    IN  IF self.owned /\ IsArrayPtr(self.array)
        THEN [after EXCEPT ![Index(self.array)].dropped = TRUE]
        ELSE after

\* the typed conversions: Vec<i8> and Vec<bool>
EncodeI8s(s) == [k \in 1..Len(s) |-> <<AsU8(s[k])>>]
DecodeI8s(r) == IF r.ok THEN Ok([k \in 1..Len(r.val) |-> AsI8(r.val[k][1])]) ELSE r
EncodeBools(b) ==
    [k \in 1..Len(b) |-> LE(IF b[k] THEN VARIANT_TRUE ELSE VARIANT_FALSE, 2)]
\* the read of a VT_BOOL element taking VARIANT_TRUE alone for true
DecodeBools_strict(r) ==
    IF r.ok THEN Ok([k \in 1..Len(r.val) |-> S16(r.val[k]) = VARIANT_TRUE]) ELSE r
DecodeBools(r) == IF r.ok THEN Ok([k \in 1..Len(r.val) |-> S16(r.val[k]) # 0]) ELSE r

TryIntoVecI8(heap, self) == {DecodeI8s(r) : r \in into_vector(heap, self, "VT_I1")}
TryIntoVecBool(heap, self) == {DecodeBools(r) : r \in into_vector(heap, self, "VT_BOOL")}

\* SafeArray::into_string_vector: the elements as BSTRs, each decoded
into_string_vector(heap, self) ==
    UNION {IF ~r.ok THEN {r}
           ELSE {Ok(t) : t \in {q \in [1..Len(r.val) -> Strings] :
                                  \A k \in 1..Len(r.val) : q[k] \in BstrToString(PtrOf(r.val[k]))}}
           : r \in into_vector(heap, self, "VT_BSTR")}

\* the characters `{}` writes for an integer, as code points
RECURSIVE DisplayInt(_)
DisplayInt(n) ==
    IF n < 0 THEN <<45>> \o DisplayInt(-n)
    ELSE IF n < 10 THEN <<48 + n>>
    ELSE DisplayInt(n \div 10) \o <<48 + (n % 10)>>

\* the characters `{}` writes for one element of the vector a numeric array
\* converts to; elements wider than 31 bits are written for the values below
\* 2^31, and floating-point elements for 0.0
DisplayElem(vt, bytes) ==
    CASE vt = "VT_BOOL" -> IF S16(bytes) # 0 THEN <<116, 114, 117, 101>>
                                             ELSE <<102, 97, 108, 115, 101>>
      [] vt = "VT_I1" -> DisplayInt(AsI8(bytes[1]))
      [] vt = "VT_I2" -> DisplayInt(S16(bytes))
      [] vt \in {"VT_I4", "VT_INT"} -> DisplayInt(S32(bytes))
      [] vt = "VT_UI1" -> DisplayInt(bytes[1])
      [] vt = "VT_UI2" -> DisplayInt(U16(bytes))
      [] vt \in {"VT_UI4", "VT_UINT", "VT_I8", "VT_UI8"} ->
            DisplayInt(bytes[1] + 256 * bytes[2] + 65536 * bytes[3]
                           + 16777216 * (bytes[4] % 128))
      [] OTHER -> DisplayInt(0)

\* fmt_safe_array!: an error of the conversion is a formatting error; the
\* elements are written between brackets with ", " between two of them
fmt_safe_array(vals) ==
    LET RECURSIVE Written(_)
        Written(k) ==
            IF k = 0 THEN <<>>
            ELSE Written(k - 1) \o (IF k > 1 THEN <<44, 32>> ELSE <<>>) \o vals.val[k]
    IN  IF ~vals.ok THEN Err("fmt::Error")
        ELSE Ok(<<91>> \o Written(Len(vals.val)) \o <<93>>)

\* impl Display for SafeArray: the element tag selects the vector type, and the
\* conversion to it asks into_vector for the array's own tag (TryInto<Vec<i32>>
\* and TryInto<Vec<u32>> ask for VT_INT / VT_UINT when that is the tag), except
\* that Vec<String> always asks for VT_BSTR
fmt(heap, self) ==
    LET vt == get_var_type(heap, self)
        shown(w, r) == IF r.ok THEN Ok([k \in 1..Len(r.val) |-> DisplayElem(w, r.val[k])])
                       ELSE r
    IN  IF ~vt.ok THEN {Err("fmt::Error")}
        ELSE IF vt.val \in {"VT_BOOL", "VT_I1", "VT_I2", "VT_I4", "VT_INT", "VT_I8",
                            "VT_UI1", "VT_UI2", "VT_UI4", "VT_UINT", "VT_UI8",
                            "VT_R4", "VT_R8"}
        THEN {fmt_safe_array(shown(vt.val, r)) : r \in into_vector(heap, self, vt.val)}
        ELSE IF vt.val \in {"VT_BSTR", "VT_LPWSTR"}
        THEN {fmt_safe_array(r) : r \in into_string_vector(heap, self)}
        ELSE {Err("fmt::Error")}

----------------------------------------------------------------------------
(* State *)

NoValue == Val("none", <<>>)
UnusedBstr == [state |-> "unused", units |-> <<>>, frees |-> 0]
Last(op, slot, src, out) == [op |-> op, slot |-> slot, src |-> src, out |-> out]
Panic == Err("panic")

Init ==
    /\ variant = NoVariant
    /\ origin = NoValue
    /\ handles = [i \in 1..MaxArr |-> NoHandle]
    /\ arrays = [i \in 1..MaxBuf |-> UnusedBuf]
    /\ bstrs = [i \in 1..MaxStr |-> UnusedBstr]
    /\ refs = 0
    /\ last = Last("init", 0, <<>>, Ok(<<>>))

FreeSlots == {i \in 1..MaxArr : handles[i] = NoHandle}
FreeSlot == CHOOSE i \in FreeSlots : \A j \in FreeSlots : i <= j
Held == {i \in 1..MaxArr : handles[i] # NoHandle}

FreeBstrs == {i \in 1..MaxStr : bstrs[i].state = "unused"}
NextBstr == CHOOSE i \in FreeBstrs : \A j \in FreeBstrs : i <= j

----------------------------------------------------------------------------
(* Operations on SafeArray handles *)

\* SafeArray::new_vector(var_type, len)
NewVector(var_type, len) ==
    /\ FreeSlots # {}
    /\ \E p \in AllocResults(arrays) :
         IF p = NullPtr
         THEN /\ last' = Last("new_vector", 0, <<var_type, len>>, Err(ERR_NULL_PTR))
              /\ UNCHANGED <<handles, arrays>>
         ELSE /\ arrays' = SafeArrayCreateVector(arrays, p, var_type, len)
              /\ handles' = [handles EXCEPT ![FreeSlot] = SafeArray_new(p, TRUE)]
              /\ last' = Last("new_vector", FreeSlot, <<var_type, len>>,
                              Ok(SafeArray_new(p, TRUE)))
    /\ UNCHANGED <<variant, origin, bstrs, refs>>

\* SafeArray::from_vector(var_type, src), src given as the bytes of its elements;
\* what names the caller's typed vector.  When a write fails, `?` returns the
\* error and arr, the array new_vector returned, is dropped.
FromVector(var_type, src, what) ==
    /\ FreeSlots # {}
    /\ \E p \in AllocResults(arrays) :
         IF p = NullPtr
         THEN /\ last' = Last("from_vector", 0, what, Err(ERR_NULL_PTR))
              /\ UNCHANGED <<handles, arrays>>
         ELSE IF \E k \in 1..Len(src) : src[k] = <<>>
         THEN /\ arrays' = DropArray(from_vector(arrays, p, var_type, src),
                                     SafeArray_new(p, TRUE))
              /\ last' = Last("from_vector", 0, what, Err("ExternalError"))
              /\ UNCHANGED handles
         ELSE /\ arrays' = from_vector(arrays, p, var_type, src)
              /\ handles' = [handles EXCEPT ![FreeSlot] = SafeArray_new(p, TRUE)]
              /\ last' = Last("from_vector", FreeSlot, what, Ok(SafeArray_new(p, TRUE)))
    /\ UNCHANGED <<variant, origin, bstrs, refs>>

\* impl TryFrom<Vec<i8>> for SafeArray
TryFromVecI8(s) == FromVector("VT_I1", EncodeI8s(s), [kind |-> "i8", vec |-> s])

\* impl TryFrom<&Vec<bool>> for SafeArray
TryFromVecBool(b) == FromVector("VT_BOOL", EncodeBools(b), [kind |-> "bool", vec |-> b])

\* impl From<*mut SAFEARRAY> for SafeArray, on a pointer the caller has
FromRaw(p) ==
    /\ FreeSlots # {}
    /\ handles' = [handles EXCEPT ![FreeSlot] = [array |-> p, owned |-> TRUE]]
    /\ last' = Last("from_raw", FreeSlot, p, Ok([array |-> p, owned |-> TRUE]))
    /\ UNCHANGED <<variant, origin, arrays, bstrs, refs>>

\* impl From<*mut SAFEARRAY> for SafeArray, on an array the external subsystem
\* has just returned
WrapExternal(vt, dims, lower, elems) ==
    /\ FreeSlots # {}
    /\ FreeBufs(arrays) # {}
    /\ LET p == ArrayPtr(NextBuf(arrays))
       IN  /\ arrays' = [arrays EXCEPT ![Index(p)] =
                   [state |-> "live", vt |-> vt, dims |-> dims, lower |-> lower,
                    elems |-> elems, destroys |-> 0, dropped |-> FALSE]]
           /\ handles' = [handles EXCEPT ![FreeSlot] = [array |-> p, owned |-> TRUE]]
           /\ last' = Last("from_raw", FreeSlot, p, Ok([array |-> p, owned |-> TRUE]))
    /\ UNCHANGED <<variant, origin, bstrs, refs>>

\* SafeArray::new(array, false) on an array the external subsystem owns
BorrowExternal(vt, dims, lower, elems) ==
    /\ FreeSlots # {}
    /\ FreeBufs(arrays) # {}
    /\ LET p == ArrayPtr(NextBuf(arrays))
       IN  /\ arrays' = [arrays EXCEPT ![Index(p)] =
                   [state |-> "live", vt |-> vt, dims |-> dims, lower |-> lower,
                    elems |-> elems, destroys |-> 0, dropped |-> FALSE]]
           /\ handles' = [handles EXCEPT ![FreeSlot] = SafeArray_new(p, FALSE)]
           /\ last' = Last("new", FreeSlot, p, Ok(SafeArray_new(p, FALSE)))
    /\ UNCHANGED <<variant, origin, bstrs, refs>>

\* impl Clone for SafeArray; SafeArrayCopy(..).unwrap() panics on a failed copy
CloneArr(i) ==
    /\ i \in Held
    /\ FreeSlots # {}
    /\ IF CloneCopies(handles[i])
       THEN \E p \in AllocResults(arrays) :
              IF p = NullPtr
              THEN /\ last' = Last("clone", i, handles[i], Panic)
                   /\ UNCHANGED <<handles, arrays>>
              ELSE /\ arrays' = SafeArrayCopy(arrays, handles[i].array, p)
                   /\ handles' = [handles EXCEPT ![FreeSlot] = CloneHandleOf(handles[i], p)]
                   /\ last' = Last("clone", i, handles[i],
                                   Ok([slot |-> FreeSlot, copied |-> TRUE]))
       ELSE /\ handles' = [handles EXCEPT ![FreeSlot] = CloneHandleOf(handles[i], NullPtr)]
            /\ last' = Last("clone", i, handles[i],
                            Ok([slot |-> FreeSlot, copied |-> FALSE]))
            /\ UNCHANGED arrays
    /\ UNCHANGED <<variant, origin, bstrs, refs>>

\* impl Drop for SafeArray
DropArr(i) ==
    /\ i \in Held
    /\ arrays' = DropArray(arrays, handles[i])
    /\ handles' = [handles EXCEPT ![i] = NoHandle]
    /\ last' = Last("drop", i, handles[i], Ok(<<>>))
    /\ UNCHANGED <<variant, origin, bstrs, refs>>

\* impl TryInto<Vec<i8>> / TryInto<Vec<bool>> for &SafeArray
IntoVector(i, kind) ==
    /\ i \in Held
    /\ \E r \in (IF kind = "i8" THEN TryIntoVecI8(arrays, handles[i])
                               ELSE TryIntoVecBool(arrays, handles[i])) :
         last' = Last("into_vector", i, kind, r)
    /\ UNCHANGED <<variant, origin, handles, arrays, bstrs, refs>>

\* SafeArray::into_interface_vector() on the handle of slot i
IntoInterfaceVector(i) ==
    /\ i \in Held
    /\ \E r \in into_interface_vector(arrays, handles[i]) :
         last' = Last("into_interface_vector", i, handles[i], r)
    /\ UNCHANGED <<variant, origin, handles, arrays, bstrs, refs>>

\* into_vector / into_interface_vector on an array from outside that reports
\* the bounds lower and upper, up to the allocation of the vector
WithCapacity(lower, upper) ==
    /\ \E r \in with_capacity(lower, upper) :
         last' = Last("with_capacity", 0, [lower |-> lower, upper |-> upper], r)
    /\ UNCHANGED <<variant, origin, handles, arrays, bstrs, refs>>

\* format!("{}", arr) on the handle of slot i
Display(i) ==
    /\ i \in Held
    /\ \E r \in fmt(arrays, handles[i]) :
         last' = Last("fmt", i, handles[i], r)
    /\ UNCHANGED <<variant, origin, handles, arrays, bstrs, refs>>

\* SafeArray::put_element(index, value) on the handle of slot i
PutElement(i, index, bytes) ==
    /\ i \in Held
    /\ arrays' = SafeArrayPutElement(arrays, handles[i].array, index, bytes)
    /\ last' = Last("put_element", i,
                    [handle |-> handles[i], index |-> index, value |-> bytes],
                    IF InBounds(arrays, handles[i].array, index) /\ bytes # <<>>
                    THEN Ok(<<>>) ELSE Err("ExternalError"))
    /\ UNCHANGED <<variant, origin, handles, bstrs, refs>>

----------------------------------------------------------------------------
(* Operations on the Variant *)

\* the payloads of the bounded domain, for each variant without a SafeArray
PlainTags == ValueTags \ ArrayTags
Payloads(t) ==
    CASE t \in NullTags -> {<<>>}
      [] t = "I1" -> I1Vals
      [] t = "I2" -> I2Vals
      [] t \in {"I4", "INT"} -> I4Vals
      [] t = "UI1" -> UI1Vals
      [] t = "UI2" -> UI2Vals
      [] t \in {"UI4", "UINT"} -> W4Vals
      [] t \in {"I8", "UI8", "CURRENCY"} -> W8Vals
      [] t = "R4" -> R4Vals
      [] t \in {"R8", "DATE"} -> R8Vals
      [] t = "BOOL" -> BOOLEAN
      [] t = "STRING" -> Strings
      [] t \in {"UNKNOWN", "DISPATCH"} -> {ObjPtr(1)}
      [] t \in {"ERROR", "HRESULT"} -> {-2147467259, 0}
      [] t = "VARIANT" -> NestedVariants
      [] t = "DECIMAL" -> DecVals

\* the variants whose payload is a resource, and one payload of each
OwnedTags == {"STRING", "UNKNOWN", "DISPATCH", "VARIANT", "DECIMAL"}
OwnedPayload(t) ==
    CASE t = "STRING" -> <<72>>
      [] t \in {"UNKNOWN", "DISPATCH"} -> ObjPtr(1)
      [] t = "VARIANT" -> Variant_new_null("VT_EMPTY")
      [] t = "DECIMAL" -> <<0, 0, 0>>

\* Variant::from(value) for a Value without a SafeArray.  BSTR::from allocates
\* for a non-empty string; an interface handle arrives holding one reference;
\* the binding v of the VARIANT and DECIMAL arms is a local of the call.
VariantFrom(value, pad) ==
    /\ variant = NoVariant
    /\ value.tag = "STRING" /\ value.v # <<>> => FreeBstrs # {}
    /\ value.tag \in {"UNKNOWN", "DISPATCH"} => refs < MaxRef
    /\ LET bstr == IF value.tag = "STRING" /\ value.v # <<>>
                   THEN BstrPtr(NextBstr) ELSE NullPtr
       IN  /\ variant' = FromValue(value, pad, bstr, LocalPtr(1))
           /\ bstrs' = IF bstr = NullPtr THEN bstrs
                       ELSE [bstrs EXCEPT ![Index(bstr)] =
                               [state |-> "live", units |-> EncodeUtf16(value.v),
                                frees |-> 0]]
    /\ refs' = IF value.tag \in {"UNKNOWN", "DISPATCH"} THEN refs + 1 ELSE refs
    /\ origin' = value
    /\ last' = Last("from_value", 0, value, Ok(<<>>))
    /\ UNCHANGED <<handles, arrays>>

\* Variant::from(Value::SAFEARRAY(a)) and Variant::from(Value::ARRAY(a)), a
\* being the handle of slot i: the arm copies a.array, and its binding, the
\* SafeArray itself, goes out of scope at the end of the arm
VariantFromArray(i, tag, pad) ==
    /\ variant = NoVariant
    /\ i \in Held
    /\ variant' = FromValue(Val(tag, handles[i]), pad, NullPtr, NullPtr)
    /\ arrays' = DropArray(arrays, handles[i])
    /\ handles' = [handles EXCEPT ![i] = NoHandle]
    /\ origin' = Val(tag, handles[i])
    /\ last' = Last("from_value", i, Val(tag, handles[i]), Ok(<<>>))
    /\ UNCHANGED <<bstrs, refs>>

\* Variant::get_array(), the returned SafeArray kept in a free slot
VariantGetArray ==
    /\ variant # NoVariant
    /\ FreeSlots # {}
    /\ \E r \in get_array(variant) :
         /\ handles' = IF r.ok THEN [handles EXCEPT ![FreeSlot] = r.val] ELSE handles
         /\ last' = Last("get_array", IF r.ok THEN FreeSlot ELSE 0, variant, r)
    /\ UNCHANGED <<variant, origin, arrays, bstrs, refs>>

\* the Variant goes out of scope: struct Variant has no Drop, and the payload
\* members of the union are ManuallyDrop, so nothing is released
DropVariant ==
    /\ variant # NoVariant
    /\ variant' = NoVariant
    /\ origin' = NoValue
    /\ last' = Last("drop_variant", 0, [variant |-> variant, origin |-> origin], Ok(<<>>))
    /\ UNCHANGED <<handles, arrays, bstrs, refs>>

\* the VARIANTs the automation subsystem hands over: interface tags with the
\* handle by value or behind a pointer, string tags, a tag the crate does not
\* read, a narrow string at an address (1793) outside the BSTR allocations,
\* and an array the VARIANT owns
ExternalVariants ==
    {Variant_new(vt, PtrBytes(p)) :
        vt \in {"VT_DISPATCH", "VT_UNKNOWN"},
        p \in {NullPtr, ObjPtr(1), CellPtr(0), CellPtr(1)}}
    \cup {Variant_new(vt, PtrBytes(NullPtr)) : vt \in {"VT_BSTR", "VT_LPWSTR", "VT_LPSTR"}}
    \cup {Variant_new("VT_PTR", PtrBytes(NullPtr)),
          Variant_new("VT_LPSTR", PtrBytes(1793)),
          Variant_new("VT_SAFEARRAY", PtrBytes(ArrayPtr(1)))}

\* impl From<VARIANT> for Variant; an array VARIANT arrives with its buffer
VariantExternal(g) ==
    /\ variant = NoVariant
    /\ is_array(g) => arrays[Index(parray(g.data))].state = "unused"
    /\ variant' = g
    /\ origin' = NoValue
    /\ arrays' = IF is_array(g)
                 THEN SafeArrayCreateVector(arrays, parray(g.data), "VT_I1", 1)
                 ELSE arrays
    /\ refs' = IF IsObjPtr(pdispVal(g.data)) \/ PtrOf(g.data) = CellPtr(1)
               THEN refs + 1 ELSE refs
    /\ last' = Last("from_variant", 0, g, Ok(<<>>))
    /\ UNCHANGED <<handles, bstrs>>

\* Variant::get_value(), the Value it returns kept by the caller; the clone of
\* an interface takes a reference on the object
GetValue ==
    /\ variant # NoVariant
    /\ refs < MaxRef
    /\ \E r \in get_value(variant) :
         /\ refs' = IF r.ok /\ r.val.tag \in {"UNKNOWN", "DISPATCH"} /\ IsObjPtr(r.val.v)
                    THEN refs + 1 ELSE refs
         /\ last' = Last("get_value", 0, variant, r)
    /\ UNCHANGED <<variant, origin, handles, arrays, bstrs>>

\* the Value get_value() returned goes out of scope: an interface is
\* released, a SafeArray is dropped, a String, a Variant (no Drop) and a
\* DECIMAL give nothing back to the external subsystem
DropValue ==
    /\ last.op = "get_value"
    /\ last.out.ok
    /\ LET value == last.out.val
       IN  /\ arrays' = IF value.tag \in ArrayTags THEN DropArray(arrays, value.v)
                        ELSE arrays
           /\ refs' = IF value.tag \in {"UNKNOWN", "DISPATCH"} /\ IsObjPtr(value.v)
                      THEN refs - 1 ELSE refs
           /\ last' = Last("drop_value", 0, value, Ok(<<>>))
    /\ UNCHANGED <<variant, origin, handles, bstrs>>

\* Variant::abs, negate, not (other is NoVariant) and add, subtract, multiply,
\* divide, mod_by, and, or, xor on &self and &other
Arith(op, other, ext) ==
    /\ variant # NoVariant
    /\ last' = Last(op, 0, [self |-> variant, other |-> other, ext |-> ext],
                    Variant_arith(ext))
    /\ UNCHANGED <<variant, origin, handles, arrays, bstrs, refs>>

\* Variant::get_string()
GetString ==
    /\ variant # NoVariant
    /\ \E r \in get_string(variant) : last' = Last("get_string", 0, variant, r)
    /\ UNCHANGED <<variant, origin, handles, arrays, bstrs, refs>>

\* impl TryInto<T> for &Variant, for the target T
TryIntoT(target) ==
    /\ variant # NoVariant
    /\ \E o \in TryIntoPrim(target, variant) :
         last' = Last("try_into", 0, [target |-> target, variant |-> variant], o)
    /\ UNCHANGED <<variant, origin, handles, arrays, bstrs, refs>>

----------------------------------------------------------------------------
(* Specifications *)

\* construction of a Variant from every Value of the bounded domain
NextValue ==
    \/ \E t \in PlainTags : \E v \in Payloads(t), pad \in Pads : VariantFrom(Val(t, v), pad)
    \/ \E len \in 0..1 : NewVector("VT_I1", len)
    \/ \E i \in 1..MaxArr, tag \in ArrayTags, pad \in Pads : VariantFromArray(i, tag, pad)

SpecValue == Init /\ [][NextValue]_vars

\* vectors in and out of a SafeArray, one array at a time
I8Vectors == SeqsUpTo(I1Vals, MaxLen)
BoolVectors == SeqsUpTo(BOOLEAN, MaxLen)
\* 16-bit elements of a VT_BOOL array that comes from outside
RawBools == {LE(0, 2), LE(-1, 2), LE(1, 2), LE(256, 2)}

NextVector ==
    \/ \E s \in I8Vectors : Held = {} /\ TryFromVecI8(s)
    \/ \E b \in BoolVectors : Held = {} /\ TryFromVecBool(b)
    \/ \E e \in SeqsUpTo(RawBools, MaxLen), lower \in {0, 3} :
         FreeBufs(arrays) = 1..MaxBuf /\ Held = {} /\ WrapExternal("VT_BOOL", 1, lower, e)
    \/ FreeBufs(arrays) = 1..MaxBuf /\ Held = {}
          /\ WrapExternal("VT_BOOL", 2, 0, <<LE(1, 2), LE(0, 2)>>)
    \/ \E e \in {<<<<5>>, <<251>>>>, <<<<5>>, <<>>>>} :
         FreeBufs(arrays) = 1..MaxBuf /\ Held = {} /\ WrapExternal("VT_I1", 1, -2, e)
    \/ \E src \in {<<PtrBytes(BstrPtr(1)), PtrBytes(NullPtr)>>, <<PtrBytes(BstrPtr(1)), <<>>>>} :
         FreeBufs(arrays) = 1..MaxBuf /\ Held = {}
            /\ FromVector("VT_BSTR", src, [kind |-> "bstr", vec |-> src])
    \/ \E i \in 1..MaxArr, kind \in {"i8", "bool"} : IntoVector(i, kind)
    \/ \E i \in 1..MaxArr : DropArr(i)

SpecVector == Init /\ [][NextVector]_vars

\* ownership: the handles, the buffers and the Variant's payload
NextOwn ==
    \/ NewVector("VT_I1", 1)
    \/ TryFromVecI8(<<-1>>)
    \/ \E i \in 1..MaxArr : CloneArr(i)
    \/ \E i \in 1..MaxArr : DropArr(i)
    \/ \E i \in 1..MaxArr, tag \in ArrayTags : VariantFromArray(i, tag, 0)
    \/ \E t \in OwnedTags : VariantFrom(Val(t, OwnedPayload(t)), 0)
    \/ VariantGetArray
    \/ DropVariant

SpecOwn == Init /\ [][NextOwn]_vars

\* SafeArray handles however they are made: by the constructors, around a raw
\* pointer (null, or an array the external subsystem returned or still owns),
\* or by clone
NextRaw ==
    \/ \E len \in 0..1 : NewVector("VT_I1", len)
    \/ \E s \in {<<>>, <<-1>>} : TryFromVecI8(s)
    \/ FromRaw(NullPtr)
    \/ \E lower \in {0, 3} : WrapExternal("VT_I1", 1, lower, <<<<1>>>>)
    \/ BorrowExternal("VT_I1", 1, 0, <<<<1>>>>)
    \/ \E i \in 1..MaxArr : CloneArr(i)
    \/ \E i \in 1..MaxArr : DropArr(i)

SpecRaw == Init /\ [][NextRaw]_vars

\* reading a Variant: one is built from a Value or taken from outside, then it
\* is decomposed and the Value obtained is dropped
NextRead ==
    \/ \E t \in PlainTags : \E v \in Payloads(t) : VariantFrom(Val(t, v), 0)
    \/ \E g \in ExternalVariants : VariantExternal(g)
    \/ NewVector("VT_I1", 1)
    \/ \E i \in 1..MaxArr, tag \in ArrayTags : VariantFromArray(i, tag, 0)
    \/ GetValue
    \/ DropValue
    \/ VariantGetArray

SpecRead == Init /\ [][NextRead]_vars

\* coercion of a Variant, built from a Value or taken from outside, to each of
\* the twelve primitive targets
NextCoerce ==
    \/ \E t \in PlainTags : \E v \in Payloads(t), pad \in Pads : VariantFrom(Val(t, v), pad)
    \/ \E g \in ExternalVariants : VariantExternal(g)
    \/ \E target \in Targets : TryIntoT(target)
    \/ GetString
    \/ \E op \in {"abs", "negate", "not"}, ext \in VarArith : Arith(op, NoVariant, ext)
    \/ \E op \in {"add", "subtract", "multiply", "divide", "mod_by", "and", "or", "xor"},
          other \in {variant, Variant_new("VT_I4", Union(LE(1, 4), 0))}, ext \in VarArith :
         Arith(op, other, ext)

SpecCoerce == Init /\ [][NextCoerce]_vars

\* arrays of interface handles, null or not, as the automation subsystem
\* returns them, and one array of another element type
NextInterface ==
    \/ \E vt \in {"VT_UNKNOWN", "VT_DISPATCH", "VT_BSTR"}, dims \in {1, 2}, lower \in {0, 3},
          e \in SeqsUpTo({PtrBytes(NullPtr), PtrBytes(ObjPtr(2))}, MaxLen) :
         Held = {} /\ WrapExternal(vt, dims, lower, e)
    \/ \E i \in 1..MaxArr : IntoInterfaceVector(i)
    \/ \E i \in 1..MaxArr : DropArr(i)

SpecInterface == Init /\ [][NextInterface]_vars

\* handles to one buffer: an array Variant from outside and the borrowed
\* handles get_array() gives, owned arrays and their clones, and writes
\* through any of them
NextAlias ==
    \/ VariantExternal(Variant_new("VT_SAFEARRAY", PtrBytes(ArrayPtr(1))))
    \/ VariantGetArray
    \/ TryFromVecI8(<<-1>>)
    \/ \E i \in 1..MaxArr : CloneArr(i)
    \/ \E i \in 1..MaxArr, index \in 0..1, b \in {7, 9} : PutElement(i, index, <<b>>)

SpecAlias == Init /\ [][NextAlias]_vars

\* bounds an array from outside can report: SAFEARRAYBOUND holds a signed
\* 32-bit lower bound and an unsigned 32-bit element count
I32Min == -2147483647 - 1
I32Max == 2147483647
BoundValues ==
    {I32Min, I32Min + 1, -65537, -65536, -3, -2, -1, 0, 1, 2, 3, 65535, 65536,
     I32Max - 1, I32Max}

NextBounds ==
    \E lower \in BoundValues, upper \in BoundValues :
        /\ lower > I32Min => upper >= lower - 1
        /\ WithCapacity(lower, upper)

SpecBounds == Init /\ [][NextBounds]_vars

\* the elements an array of a given tag is filled with: values of both signs,
\* null and live BSTRs, and an element that cannot be copied out
ElemsOf(vt) ==
    CASE vt \in {"VT_I1", "VT_UI1"} -> {<<5>>, <<251>>}
      [] vt \in {"VT_I2", "VT_UI2"} -> {LE(10, 2), LE(-2, 2)}
      [] vt = "VT_BOOL" -> {LE(0, 2), LE(-1, 2)}
      [] vt \in {"VT_I4", "VT_INT"} -> {LE(70000, 4), LE(-3, 4)}
      [] vt \in {"VT_UI4", "VT_UINT"} -> {LE(70000, 4), LE(12, 4)}
      [] vt \in {"VT_I8", "VT_UI8"} -> {LE(70000, 8), LE(12, 8)}
      [] vt \in {"VT_R4"} -> {LE(0, 4)}
      [] vt \in {"VT_R8"} -> {LE(0, 8)}
      [] vt \in {"VT_BSTR", "VT_LPWSTR"} -> {PtrBytes(NullPtr), PtrBytes(BstrPtr(1))}
      [] OTHER -> {PtrBytes(ObjPtr(2))}

\* arrays of every element tag the formatter dispatches on and of one it does
\* not, written out with Display; the strings are BSTRs allocated before
NextDisplay ==
    \/ \E str \in {<<72>>, <<72, 128512>>} :
         variant = NoVariant /\ VariantFrom(Val("STRING", str), 0)
    \/ \E vt \in {"VT_BOOL", "VT_I1", "VT_I2", "VT_I4", "VT_INT", "VT_I8", "VT_UI1",
                  "VT_UI2", "VT_UI4", "VT_UINT", "VT_UI8", "VT_R4", "VT_R8",
                  "VT_BSTR", "VT_LPWSTR", "VT_UNKNOWN"},
          dims \in {1, 2}, lower \in {0, 3} :
         \E e \in SeqsUpTo(ElemsOf(vt) \cup {<<>>}, MaxLen) :
            /\ FreeBufs(arrays) = 1..MaxBuf
            /\ variant # NoVariant
            /\ dims = 2 => Len(e) = 1
            /\ vt \in {"VT_BSTR", "VT_LPWSTR"} =>
                  \A k \in 1..Len(e) : e[k] # <<>> => ValidBstr(PtrOf(e[k]))
            /\ WrapExternal(vt, dims, lower, e)
    \/ \E i \in 1..MaxArr : Display(i)
    \/ \E i \in 1..MaxArr : DropArr(i)

SpecDisplay == Init /\ [][NextDisplay]_vars

----------------------------------------------------------------------------
(* Properties of SpecValue *)

\* C1: for a Value v of a plain scalar variant (I1, I2, I4, I8, INT, UI1, UI2,
\* UI4, UI8, UINT, R4, R8, BOOL, STRING, CURRENCY, DATE), get_value() on
\* Variant::from(v) has one result, Ok of the same variant with the same
\* payload, whatever the unwritten bytes of the union hold.
ScalarRoundTrip ==
    origin.tag \in ScalarTags =>
        /\ get_value(variant) # {}
        /\ \A r \in get_value(variant) :
              r.ok /\ r.val.tag = origin.tag /\ r.val.v = origin.v

\* a negative I1 in a union whose other bytes are not zero, read back
ScalarRoundTripWitness ==
    /\ origin.tag = "I1"
    /\ origin.v = -128
    /\ variant.vt = "VT_I1"
    /\ variant.data[2] = 170
    /\ Ok(Val("I1", -128)) \in get_value(variant)

\* C2: for each of the 27 variants of Value, is_null() on Variant::from(v) is
\* true exactly when v is EMPTY, NULL or VOID.
NullPredicate ==
    variant # NoVariant => (is_null(variant) <=> origin.tag \in NullTags)

\* a VOID has been converted and is null
NullPredicateWitness ==
    /\ origin.tag = "VOID"
    /\ variant.vt = "VT_VOID"
    /\ is_null(variant)

----------------------------------------------------------------------------
(* Properties of SpecVector *)

\* C3: for a sequence s of 8-bit signed integers, the empty one included, the
\* array from_vector(VT_I1, s) has built gives exactly s in order through
\* into_vector(VT_I1), and has one dimension, lower bound 0 and upper bound
\* len(s) - 1.
I8ArrayRoundTrip ==
    (last.op = "from_vector" /\ last.out.ok /\ last.src.kind = "i8") =>
        LET a == handles[last.slot]
            s == last.src.vec
        IN  /\ TryIntoVecI8(arrays, a) # {}
            /\ \A r \in TryIntoVecI8(arrays, a) : r.ok /\ r.val = s
            /\ get_dim(arrays, a) = 1
            /\ get_lower_bound(arrays, a, 1).ok
            /\ get_lower_bound(arrays, a, 1).val = 0
            /\ get_upper_bound(arrays, a, 1).ok
            /\ get_upper_bound(arrays, a, 1).val = Len(s) - 1

\* the vector [-128, 127] has been stored and reads back
I8ArrayRoundTripWitness ==
    /\ last.op = "from_vector"
    /\ last.out.ok
    /\ last.src.kind = "i8"
    /\ last.src.vec = <<-128, 127>>
    /\ Ok(<<-128, 127>>) \in TryIntoVecI8(arrays, handles[last.slot])

\* C4: the array built from a sequence b of booleans has the element tag
\* VT_BOOL and the 16-bit elements -1 for true and 0 for false, and converts
\* back to exactly b; reading any VT_BOOL array of one dimension, an element
\* gives false when it is 0 and true otherwise.
BoolArrayRoundTrip ==
    /\ (last.op = "from_vector" /\ last.out.ok /\ last.src.kind = "bool") =>
          LET a == handles[last.slot]
              b == last.src.vec
              elems == arrays[Index(a.array)].elems
          IN  /\ get_var_type(arrays, a).ok
              /\ get_var_type(arrays, a).val = "VT_BOOL"
              /\ Len(elems) = Len(b)
              /\ \A k \in 1..Len(b) :
                    /\ Len(elems[k]) = 2
                    /\ S16(elems[k]) = (IF b[k] THEN -1 ELSE 0)
              /\ TryIntoVecBool(arrays, a) # {}
              /\ \A r \in TryIntoVecBool(arrays, a) : r.ok /\ r.val = b
    /\ \A i \in Held :
          (Live(arrays, handles[i].array)
             /\ arrays[Index(handles[i].array)].vt = "VT_BOOL"
             /\ arrays[Index(handles[i].array)].dims = 1) =>
          LET elems == arrays[Index(handles[i].array)].elems
          IN  /\ TryIntoVecBool(arrays, handles[i]) # {}
              /\ \A r \in TryIntoVecBool(arrays, handles[i]) :
                    /\ r.ok
                    /\ Len(r.val) = Len(elems)
                    /\ \A k \in 1..Len(elems) : r.val[k] <=> (S16(elems[k]) # 0)

\* the vector [true, false] has been stored as -1, 0 and reads back
BoolArrayRoundTripWitness ==
    /\ last.op = "from_vector"
    /\ last.out.ok
    /\ last.src.kind = "bool"
    /\ last.src.vec = <<TRUE, FALSE>>
    /\ arrays[Index(handles[last.slot].array)].elems = <<LE(-1, 2), LE(0, 2)>>
    /\ Ok(<<TRUE, FALSE>>) \in TryIntoVecBool(arrays, handles[last.slot])

\* C12: into_vector(expected) gives Ok only for an array whose element tag is
\* expected and whose dimension count is 1; with another tag or another
\* dimension count it gives TypeError, and no element data.
IntoVectorTypeChecked ==
    last.op = "into_vector" =>
        LET buf == arrays[Index(handles[last.slot].array)]
            expected == IF last.src = "i8" THEN "VT_I1" ELSE "VT_BOOL"
        IN  /\ last.out.ok => (buf.vt = expected /\ buf.dims = 1)
            /\ (buf.vt # expected \/ buf.dims # 1) =>
                  (~last.out.ok /\ last.out.err = ERR_TYPE)

\* a VT_BOOL array of two dimensions with elements has been asked for as
\* VT_BOOL and has given TypeError
IntoVectorTypeCheckedWitness ==
    /\ last.op = "into_vector"
    /\ last.src = "bool"
    /\ arrays[Index(handles[last.slot].array)].vt = "VT_BOOL"
    /\ arrays[Index(handles[last.slot].array)].dims = 2
    /\ Len(arrays[Index(handles[last.slot].array)].elems) = 2
    /\ ~last.out.ok
    /\ last.out.err = ERR_TYPE

\* C26: into_vector on a live array of one dimension and of the expected
\* element tag, whatever its lower bound, returns upper - lower + 1 elements,
\* the k-th being the element at index lower + k; when reading an element
\* fails the call returns that error and no vector.
IntoVectorIndexOrder ==
    (/\ last.op = "into_vector"
     /\ Live(arrays, handles[last.slot].array)
     /\ arrays[Index(handles[last.slot].array)].dims = 1
     /\ arrays[Index(handles[last.slot].array)].vt
            = (IF last.src = "i8" THEN "VT_I1" ELSE "VT_BOOL")) =>
        LET buf == arrays[Index(handles[last.slot].array)]
            lower == buf.lower
            upper == buf.lower + Len(buf.elems) - 1
            at(k) == SafeArrayGetElement(arrays, handles[last.slot].array, lower + k)
        IN  IF \A k \in 0..(upper - lower) : at(k).ok
            THEN /\ last.out.ok
                 /\ Len(last.out.val) = upper - lower + 1
                 /\ \A k \in 0..(upper - lower) :
                       IF last.src = "i8"
                       THEN last.out.val[k + 1] = AsI8(at(k).val[1])
                       ELSE last.out.val[k + 1] <=> (S16(at(k).val) # 0)
            ELSE /\ ~last.out.ok
                 /\ last.out.err = "ExternalError"

IntoVectorIndexOrderWitness ==
    /\ last.op = "into_vector"
    /\ last.src = "i8"
    /\ Live(arrays, handles[last.slot].array)
    /\ arrays[Index(handles[last.slot].array)].lower = -2
    /\ \/ last.out.ok /\ last.out.val = <<5, -5>>
       \/ ~last.out.ok /\ arrays[Index(handles[last.slot].array)].elems[2] = <<>>

\* C27: from_vector either returns an owned handle to a live array of one
\* dimension and lower bound 0 that holds every element of the source at its
\* position, or returns an error and leaves no buffer allocated: NullPointer
\* when the creation returned null, nothing having been allocated, and the
\* error of the failed write after the array built so far has been released
\* exactly once.
FromVectorAllOrNothing ==
    [][last'.op = "from_vector" =>
          LET live(heap) == {i \in 1..MaxBuf : heap[i].state = "live"}
              changed == {i \in 1..MaxBuf : arrays'[i] # arrays[i]}
              vec == last'.src.vec
              stored(k) == CASE last'.src.kind = "i8" -> <<AsU8(vec[k])>>
                             [] last'.src.kind = "bool" -> LE(IF vec[k] THEN -1 ELSE 0, 2)
                             [] OTHER -> vec[k]
          IN  IF last'.out.ok
              THEN /\ handles'[last'.slot] = last'.out.val
                   /\ last'.out.val.owned
                   /\ Index(last'.out.val.array) \notin live(arrays)
                   /\ live(arrays') = live(arrays) \cup {Index(last'.out.val.array)}
                   /\ arrays'[Index(last'.out.val.array)].dims = 1
                   /\ arrays'[Index(last'.out.val.array)].lower = 0
                   /\ Len(arrays'[Index(last'.out.val.array)].elems) = Len(vec)
                   /\ \A k \in 1..Len(vec) :
                         arrays'[Index(last'.out.val.array)].elems[k] = stored(k)
              ELSE /\ handles' = handles
                   /\ live(arrays') = live(arrays)
                   /\ \/ last'.out.err = ERR_NULL_PTR /\ arrays' = arrays
                      \/ /\ last'.out.err = "ExternalError"
                         /\ \E i \in 1..MaxBuf :
                               /\ changed = {i}
                               /\ arrays[i].state = "unused"
                               /\ arrays'[i].state = "destroyed"
                               /\ arrays'[i].destroys = 1
      ]_vars

FromVectorAllOrNothingWitness ==
    /\ last.op = "from_vector"
    /\ ~last.out.ok
    /\ last.out.err = "ExternalError"
    /\ last.src.vec = <<PtrBytes(BstrPtr(1)), <<>>>>
    /\ arrays[1].state = "destroyed"
    /\ arrays[1].destroys = 1

----------------------------------------------------------------------------
(* Properties of SpecOwn *)

\* C5: over new_vector, from_vector, clone, conversion into a Value or a
\* Variant, get_array and drop, no buffer is handed to SafeArrayDestroy more
\* than once, and a buffer whose owning handle has been dropped has been
\* destroyed exactly once.
ReleasedExactlyOnce ==
    \A b \in 1..MaxBuf :
        /\ arrays[b].destroys <= 1
        /\ arrays[b].dropped => arrays[b].destroys = 1

\* a handle has been cloned, and source and clone have both been dropped
ReleasedExactlyOnceWitness ==
    /\ last.op = "drop"
    /\ last.src.owned
    /\ \E b, c \in 1..MaxBuf :
          /\ b # c
          /\ arrays[b].dropped /\ arrays[b].destroys = 1
          /\ arrays[c].dropped /\ arrays[c].destroys = 1
          /\ arrays[b].vt = arrays[c].vt

\* C6: after Variant::from(Value::SAFEARRAY(a)) or Variant::from(Value::ARRAY(a))
\* with a.owned = true, the buffer of a has not been released, so the array
\* pointer of the Variant refers to a live buffer and into_vector through
\* get_array() reads no destroyed buffer.
ArrayPayloadLive ==
    (origin.tag \in ArrayTags /\ origin.v.owned /\ origin.v.array # NullPtr) =>
        /\ parray(variant.data) = origin.v.array
        /\ Live(arrays, parray(variant.data))
        /\ \A r \in get_array(variant) :
              r.ok /\ arrays[Index(r.val.array)].state # "destroyed"

\* C7: the pointer stored by Variant::from(Value::VARIANT(x)) and by
\* Variant::from(Value::DECIMAL(d)) refers to storage that is valid while the
\* Variant exists, so get_value() returns Value::VARIANT(x), respectively
\* Value::DECIMAL(d), and nothing else.
NestedPayloadValid ==
    origin.tag \in {"VARIANT", "DECIMAL"} =>
        /\ ~IsLocalPtr(PtrOf(variant.data))
        /\ \A r \in get_value(variant) :
              r.ok /\ r.val.tag = origin.tag /\ r.val.v = origin.v

\* C8: once a Variant that held an owned payload is destroyed, the payload has
\* been released exactly once: the string of a Value::STRING is no longer
\* allocated, the reference of an interface handle has been given back, and
\* no array buffer has been destroyed twice.
PayloadReleasedWithVariant ==
    last.op = "drop_variant" =>
        /\ (last.src.origin.tag = "STRING" /\ last.src.origin.v # <<>>) =>
              LET s == bstrs[Index(bstrVal(last.src.variant.data))]
              IN  s.state = "freed" /\ s.frees = 1
        /\ last.src.origin.tag \in {"UNKNOWN", "DISPATCH"} => refs = 0
        /\ \A b \in 1..MaxBuf : arrays[b].destroys <= 1

----------------------------------------------------------------------------
(* Properties of SpecRaw *)

\* C9 as stated: the clone of every SafeArray with owned = true, however the
\* handle was made, is owned, has another buffer address, and its buffer is a
\* distinct allocation with the contents of the source's.
OwnedCloneDistinct ==
    (last.op = "clone" /\ last.out.ok /\ last.src.owned) =>
        LET c == handles[last.out.val.slot]
        IN  /\ c.owned
            /\ c.array # last.src.array
            /\ Live(arrays, c.array)

\* C9: the clone of a SafeArray with owned = true and a non-null pointer is
\* owned, has another buffer address, and its buffer is a distinct live
\* allocation with the tag, bounds and elements of the source's; the clone of
\* one with owned = true and a null pointer is owned and null.
OwnedCloneDeepCopy ==
    (last.op = "clone" /\ last.out.ok /\ last.src.owned) =>
        LET c == handles[last.out.val.slot]
            a == last.src
        IN  /\ c.owned
            /\ a.array = NullPtr => c.array = NullPtr
            /\ a.array # NullPtr =>
                  /\ c.array # a.array
                  /\ Live(arrays, c.array)
                  /\ Live(arrays, a.array)
                  /\ arrays[Index(c.array)].vt = arrays[Index(a.array)].vt
                  /\ arrays[Index(c.array)].dims = arrays[Index(a.array)].dims
                  /\ arrays[Index(c.array)].lower = arrays[Index(a.array)].lower
                  /\ arrays[Index(c.array)].elems = arrays[Index(a.array)].elems

\* an array that came as a raw pointer, with one element and lower bound 3,
\* has been cloned into another buffer
OwnedCloneDeepCopyWitness ==
    /\ last.op = "clone"
    /\ last.out.ok
    /\ last.src.owned
    /\ last.src.array # NullPtr
    /\ handles[last.out.val.slot].array # last.src.array
    /\ arrays[Index(last.src.array)].lower = 3
    /\ arrays[Index(handles[last.out.val.slot].array)].elems = <<<<1>>>>

\* C10: the clone of a SafeArray with owned = false has the same buffer
\* address and owned = false, and the step allocates nothing; the drop of a
\* SafeArray with owned = false, clone or source, releases nothing.
BorrowedCloneShares ==
    [][/\ (last'.op = "clone" /\ ~last'.src.owned) =>
            /\ arrays' = arrays
            /\ last'.out.ok
            /\ handles[last'.slot].array = last'.src.array
            /\ handles[last'.slot].owned = last'.src.owned
            /\ handles[last'.out.val.slot] = NoHandle
            /\ handles'[last'.out.val.slot].array = last'.src.array
            /\ handles'[last'.out.val.slot].owned = FALSE
            /\ handles'[last'.slot] = handles[last'.slot]
       /\ (last'.op = "drop" /\ ~last'.src.owned) =>
            /\ handles[last'.slot].array = last'.src.array
            /\ handles[last'.slot].owned = last'.src.owned
            /\ arrays' = arrays]_vars

\* a borrowed handle and its clone share an address; one of them has been
\* dropped and the buffer is live and was never destroyed
BorrowedCloneSharesWitness ==
    /\ last.op = "drop"
    /\ ~last.src.owned
    /\ \E i \in Held : handles[i] = last.src
    /\ Live(arrays, last.src.array)
    /\ arrays[Index(last.src.array)].destroys = 0

----------------------------------------------------------------------------
(* Properties of SpecRead *)

\* C11: get_value() leaves the tag and the payload of the Variant as they
\* were and releases nothing; an array-tagged Variant gives a SafeArray with
\* owned = false; dropping the Value obtained leaves the Variant, the strings
\* and the array buffers as they were, and the object a Variant refers to
\* keeps a reference.
DecompositionKeepsOwnership ==
    [][/\ last'.op = "get_value" =>
            /\ variant' = variant
            /\ bstrs' = bstrs
            /\ arrays' = arrays
            /\ refs' >= refs
            /\ (last'.out.ok /\ last'.out.val.tag \in ArrayTags) =>
                  /\ ~last'.out.val.v.owned
                  /\ last'.out.val.v.array = parray(variant.data)
       /\ last'.op = "drop_value" =>
            /\ variant' = variant
            /\ bstrs' = bstrs
            /\ arrays' = arrays
            /\ (variant.vt \in {"VT_DISPATCH", "VT_UNKNOWN"}
                  /\ (IsObjPtr(pdispVal(variant.data))
                        \/ PtrOf(variant.data) = CellPtr(1))) => refs' >= 1]_vars

\* the SafeArray taken out of an array Variant has been dropped and the
\* buffer of the Variant is live
DecompositionKeepsOwnershipWitness ==
    /\ last.op = "drop_value"
    /\ last.src.tag = "SAFEARRAY"
    /\ ~last.src.v.owned
    /\ is_array(variant)
    /\ last.src.v.array = parray(variant.data)
    /\ Live(arrays, parray(variant.data))

\* C17: no operation aborts the process: when an external primitive reports
\* failure, cloning and dropping an owned SafeArray included, the operation
\* returns an error result and does not panic.
NoOperationPanics ==
    last.op \in {"new_vector", "from_vector", "from_raw", "new", "clone", "drop"} =>
        (last.out.ok \/ last.out.err # "panic")

----------------------------------------------------------------------------
(* Properties of SpecCoerce *)

\* C13: for each of the twelve targets, the conversion of a Variant gives
\* TypeError if and only if the Variant's tag is outside the source set
\* {VT_BOOL, VT_CY, VT_DATE, VT_DECIMAL, VT_DISPATCH, VT_I1, VT_I2, VT_I4,
\* VT_INT, VT_I8, VT_UI1, VT_UI2, VT_UI4, VT_UINT, VT_UI8, VT_R4, VT_R8,
\* VT_BSTR, VT_LPWSTR, VT_LPSTR}.
TypeErrorIffOutsideSourceSet ==
    last.op = "try_into" =>
        ((~last.out.res.ok /\ last.out.res.err = ERR_TYPE)
            <=> last.src.variant.vt \notin
                  {"VT_BOOL", "VT_CY", "VT_DATE", "VT_DECIMAL", "VT_DISPATCH", "VT_I1",
                   "VT_I2", "VT_I4", "VT_INT", "VT_I8", "VT_UI1", "VT_UI2", "VT_UI4",
                   "VT_UINT", "VT_UI8", "VT_R4", "VT_R8", "VT_BSTR", "VT_LPWSTR",
                   "VT_LPSTR"})

\* C14: for a VT_DISPATCH Variant whose handle is null, the conversion to each
\* of the twelve targets returns Ok of the target's zero value (false, 0, the
\* empty string) and calls no external conversion routine.
NullDispatchGivesZero ==
    (/\ last.op = "try_into"
     /\ last.src.variant.vt = "VT_DISPATCH"
     /\ last.src.variant.data = PtrBytes(NullPtr)) =>
        LET t == last.src.target
        IN  /\ ~last.out.ext
            /\ last.out.res.ok
            /\ t = "bool" => last.out.res.val = FALSE
            /\ t \in {"i8", "i16", "i32", "u8", "u16"} => last.out.res.val = 0
            /\ t \in {"u32", "f32"} => last.out.res.val = <<0, 0, 0, 0>>
            /\ t \in {"i64", "u64", "f64"} => last.out.res.val = <<0, 0, 0, 0, 0, 0, 0, 0>>
            /\ t = "String" => last.out.res.val = <<>>

NullDispatchGivesZeroWitness ==
    /\ last.op = "try_into"
    /\ last.src.variant = Variant_new("VT_DISPATCH", PtrBytes(NullPtr))
    /\ last.src.target = "f64"
    /\ last.out.res.ok

\* C15: get_string() returns Ok of a String exactly for the three string tags
\* VT_BSTR, VT_LPWSTR and VT_LPSTR (those of is_string()), and TypeError for
\* every other tag.
GetStringIffIsString ==
    last.op = "get_string" =>
        IF last.src.vt \in {"VT_BSTR", "VT_LPWSTR", "VT_LPSTR"}
        THEN last.out.ok
        ELSE ~last.out.ok /\ last.out.err = ERR_TYPE

\* C16: for a primitive p of one of the twelve types T, the conversion to T of
\* Variant::from(p) returns Ok(p), has no other outcome and calls no external
\* conversion routine.
SelfTagShortcut ==
    (/\ last.op = "try_into"
     /\ origin.tag = SelfTag(last.src.target)) =>
        /\ ~last.out.ext
        /\ last.out.res.ok
        /\ last.out.res.val = origin.v

SelfTagShortcutWitness ==
    /\ last.op = "try_into"
    /\ \/ last.src.target = "String" /\ origin = Val("STRING", <<72, 128512>>)
       \/ last.src.target = "i8" /\ origin = Val("I1", -128)
       \/ last.src.target = "bool" /\ origin = Val("BOOL", TRUE)
    /\ last.out.res = Ok(origin.v)

\* C22: each of the operators abs, add, subtract, multiply, divide, mod_by,
\* negate, not, and, or, xor leaves its operand Variants and everything they
\* refer to unchanged, and returns either a new Variant holding the external
\* primitive's result or the primitive's error and no Variant.
OperatorsLeaveOperands ==
    [][last'.op \in {"abs", "negate", "not", "add", "subtract", "multiply", "divide",
                     "mod_by", "and", "or", "xor"} =>
          /\ variant' = variant
          /\ last'.src.self = variant
          /\ <<arrays, bstrs, refs>>' = <<arrays, bstrs, refs>>
          /\ IF last'.src.ext.ok
             THEN last'.out.ok /\ last'.out.val = last'.src.ext.val
             ELSE ~last'.out.ok /\ last'.out.err = last'.src.ext.err
      ]_vars

OperatorsLeaveOperandsWitness ==
    /\ last.op = "divide"
    /\ last.src.self = variant
    /\ last.src.other = variant
    /\ variant.vt = "VT_I4"
    /\ ~last.out.ok
    /\ last.out.err = "DISP_E_DIVBYZERO"

\* C23: a coercion from a numeric source tag calls the external conversion
\* routine exactly when the tag is not the destination's own representation
\* (VT_BOOL for bool, VT_I1 for i8, VT_I2 for i16, VT_I4 or VT_INT for i32,
\* VT_I8 for i64, VT_UI1 for u8, VT_UI2 for u16, VT_UI4 or VT_UINT for u32,
\* VT_UI8 for u64, VT_R4 for f32, VT_R8 for f64); so a VT_I4 payload converted
\* to u64 or i64 goes through the routine.
CoercionThroughExternal ==
    (/\ last.op = "try_into"
     /\ last.src.target # "String"
     /\ last.src.variant.vt \in
            {"VT_BOOL", "VT_CY", "VT_DATE", "VT_DECIMAL", "VT_I1", "VT_I2", "VT_I4",
             "VT_INT", "VT_I8", "VT_UI1", "VT_UI2", "VT_UI4", "VT_UINT", "VT_UI8",
             "VT_R4", "VT_R8"}) =>
        LET t == last.src.target
            own == CASE t = "bool" -> {"VT_BOOL"}
                     [] t = "i8" -> {"VT_I1"}
                     [] t = "i16" -> {"VT_I2"}
                     [] t = "i32" -> {"VT_I4", "VT_INT"}
                     [] t = "i64" -> {"VT_I8"}
                     [] t = "u8" -> {"VT_UI1"}
                     [] t = "u16" -> {"VT_UI2"}
                     [] t = "u32" -> {"VT_UI4", "VT_UINT"}
                     [] t = "u64" -> {"VT_UI8"}
                     [] t = "f32" -> {"VT_R4"}
                     [] t = "f64" -> {"VT_R8"}
        IN  last.out.ext <=> last.src.variant.vt \notin own

\* C25: coercion to i8 from a numeric source tag other than VT_I1 gives the
\* external routine a valid place for its result and returns what the routine
\* wrote there or the routine's error; no null pointer is dereferenced.
I8CoercionHasOutputLocation ==
    (/\ last.op = "try_into"
     /\ last.src.target = "i8"
     /\ last.src.variant.vt \in
            {"VT_BOOL", "VT_CY", "VT_DATE", "VT_DECIMAL", "VT_I2", "VT_I4", "VT_INT",
             "VT_I8", "VT_UI1", "VT_UI2", "VT_UI4", "VT_UINT", "VT_UI8", "VT_R4",
             "VT_R8"}) =>
        /\ last.out.ext
        /\ last.out.res.ok \/ last.out.res.err # "AccessViolation"

----------------------------------------------------------------------------
(* Properties of SpecRead: the results of get_value() *)

\* C18: get_value() fails with TypeError exactly when the tag is not one it
\* recognises; for a VT_DISPATCH or VT_UNKNOWN Variant whose handle is null it
\* returns Ok(Value::NULL), and for a non-null handle the DISPATCH,
\* respectively UNKNOWN, variant holding that handle.
GetValueDegradesNullHandle ==
    last.op = "get_value" =>
        LET g == last.src
            h == PtrOf(g.data)
            unit == IF g.vt = "VT_DISPATCH" THEN "DISPATCH" ELSE "UNKNOWN"
        IN  /\ (~last.out.ok /\ last.out.err = ERR_TYPE) <=>
                 g.vt \notin {"VT_EMPTY", "VT_NULL", "VT_VOID", "VT_I1", "VT_I2", "VT_I4",
                              "VT_I8", "VT_INT", "VT_UI1", "VT_UI2", "VT_UI4", "VT_UI8",
                              "VT_UINT", "VT_R4", "VT_R8", "VT_CY", "VT_DATE", "VT_BSTR",
                              "VT_LPSTR", "VT_DISPATCH", "VT_UNKNOWN", "VT_ERROR",
                              "VT_HRESULT", "VT_BOOL", "VT_VARIANT", "VT_DECIMAL",
                              "VT_SAFEARRAY", "VT_ARRAY"}
            /\ (g.vt \in {"VT_DISPATCH", "VT_UNKNOWN"} /\ h = NullPtr) =>
                 (last.out.ok /\ last.out.val.tag = "NULL")
            /\ (g.vt \in {"VT_DISPATCH", "VT_UNKNOWN"} /\ IsObjPtr(h)) =>
                 (last.out.ok /\ last.out.val.tag = unit /\ last.out.val.v = h)

\* C19: a Variant built from Value::ERROR(h) decomposes to Value::ERROR(h) and
\* one built from Value::HRESULT(h) to Value::HRESULT(h), for every code h.
ErrorCodesKeptApart ==
    (last.op = "get_value" /\ origin.tag \in {"ERROR", "HRESULT"}) =>
        /\ last.out.ok
        /\ last.out.val.tag = origin.tag
        /\ last.out.val.v = origin.v

----------------------------------------------------------------------------
(* Properties of SpecInterface *)

\* C20: into_interface_vector returns Ok only if the array's element tag is
\* VT_UNKNOWN or VT_DISPATCH, it has one dimension and every element is a
\* non-null handle; another element tag or dimension count gives TypeError,
\* and a null element gives NullPointer for the whole conversion, no vector
\* being returned.
InterfaceVectorAllOrNothing ==
    (last.op = "into_interface_vector" /\ Live(arrays, last.src.array)) =>
        LET buf == arrays[Index(last.src.array)]
            shaped == buf.vt \in {"VT_UNKNOWN", "VT_DISPATCH"} /\ buf.dims = 1
            nulls == {k \in 1..Len(buf.elems) : buf.elems[k] = PtrBytes(NullPtr)}
        IN  /\ last.out.ok => (shaped /\ nulls = {})
            /\ ~shaped => (~last.out.ok /\ last.out.err = ERR_TYPE)
            /\ (shaped /\ nulls # {}) => (~last.out.ok /\ last.out.err = ERR_NULL_PTR)
            /\ (shaped /\ nulls = {}) =>
                 (/\ last.out.ok
                  /\ Len(last.out.val) = Len(buf.elems)
                  /\ \A k \in 1..Len(buf.elems) : PtrBytes(last.out.val[k]) = buf.elems[k])

InterfaceVectorAllOrNothingWitness ==
    /\ last.op = "into_interface_vector"
    /\ Live(arrays, last.src.array)
    /\ arrays[Index(last.src.array)].vt = "VT_UNKNOWN"
    /\ arrays[Index(last.src.array)].dims = 1
    /\ arrays[Index(last.src.array)].elems = <<PtrBytes(ObjPtr(2)), PtrBytes(NullPtr)>>
    /\ ~last.out.ok
    /\ last.out.err = ERR_NULL_PTR

----------------------------------------------------------------------------
(* Properties of SpecAlias *)

\* C21: a put_element that succeeds through a handle changes the element seen
\* through every other handle to the same buffer and through the Variant that
\* holds it, and changes no element of any other buffer; the clone of an owned
\* SafeArray has a buffer of its own, so a put_element on the clone changes
\* nothing seen through the original.
PutElementAliasing ==
    [][/\ (last'.op = "put_element" /\ last'.out.ok) =>
            LET p == last'.src.handle.array
                k == last'.src.index
            IN  /\ \A j \in Held : handles[j].array = p =>
                      /\ get_element(arrays', handles[j], k).ok
                      /\ get_element(arrays', handles[j], k).val = last'.src.value
                /\ (is_array(variant) /\ parray(variant.data) = p) =>
                      \A r \in get_array(variant) :
                          /\ r.ok
                          /\ get_element(arrays', r.val, k).ok
                          /\ get_element(arrays', r.val, k).val = last'.src.value
                /\ \A j \in Held : handles[j].array # p =>
                      \A n \in 0..MaxLen :
                          get_element(arrays', handles[j], n) = get_element(arrays, handles[j], n)
       /\ (last'.op = "clone" /\ last'.out.ok /\ last'.src.owned
              /\ last'.src.array # NullPtr) =>
            /\ \A j \in Held : handles[j].array # handles'[last'.out.val.slot].array
            /\ is_array(variant) => parray(variant.data) # handles'[last'.out.val.slot].array
      ]_vars

PutElementAliasingWitness ==
    /\ last.op = "put_element"
    /\ last.out.ok
    /\ ~last.src.handle.owned
    /\ is_array(variant)
    /\ parray(variant.data) = last.src.handle.array
    /\ \E j \in Held : j # last.slot /\ handles[j] = last.src.handle
    /\ arrays[Index(last.src.handle.array)].elems = <<<<9>>>>

\* C24: get_value() reads the payload member that construction wrote for the
\* tag: on a Variant built from Value::DISPATCH(d) or Value::UNKNOWN(u) it
\* returns DISPATCH(d), respectively UNKNOWN(u), and on a VT_LPSTR Variant it
\* returns the narrow string at pcVal, the empty string for a null pointer.
PayloadReadAsWritten ==
    last.op = "get_value" =>
        /\ origin.tag \in {"DISPATCH", "UNKNOWN"} =>
              /\ last.out.ok
              /\ last.out.val.tag = origin.tag
              /\ last.out.val.v = origin.v
        /\ last.src.vt = "VT_LPSTR" =>
              /\ last.out.ok
              /\ last.out.val.tag = "STRING"
              /\ last.out.val.v \in LpstrToString(pcVal(last.src.data))

\* C28: Value::SAFEARRAY(a) and Value::ARRAY(a) both give a Variant tagged
\* VT_SAFEARRAY holding the pointer of a, for which is_array() is true;
\* get_value() on an array Variant returns Value::SAFEARRAY and never
\* Value::ARRAY; get_array() succeeds exactly when is_array() is true.
ArrayTagCollapse ==
    /\ (variant # NoVariant /\ origin.tag \in {"SAFEARRAY", "ARRAY"}) =>
          /\ variant.vt = "VT_SAFEARRAY"
          /\ parray(variant.data) = origin.v.array
          /\ is_array(variant)
    /\ (last.op = "get_value" /\ is_array(last.src)) =>
          /\ last.out.ok
          /\ last.out.val.tag = "SAFEARRAY"
          /\ last.out.val.v.array = parray(last.src.data)
    /\ last.op = "get_array" => (last.out.ok <=> is_array(last.src))

ArrayTagCollapseWitness ==
    /\ last.op = "get_array"
    /\ origin.tag = "ARRAY"
    /\ last.out.ok
    /\ last.out.val.array = origin.v.array

----------------------------------------------------------------------------
(* Properties of SpecDisplay *)

\* C29: Display of a single-dimension array whose element tag is one of
\* VT_BOOL, VT_I1, VT_I2, VT_I4, VT_INT, VT_I8, VT_UI1, VT_UI2, VT_UI4, VT_UINT,
\* VT_UI8, VT_R4, VT_R8, VT_BSTR, VT_LPWSTR writes "[", the elements in index
\* order with ", " between them, and "]"; it is a formatting error exactly
\* when the element tag is another one or the conversion to a vector fails
\* (more than one dimension, or an element that cannot be read).
DisplayBracketed ==
    last.op = "fmt" =>
        LET a == arrays[Index(last.src.array)]
            supported == a.vt \in {"VT_BOOL", "VT_I1", "VT_I2", "VT_I4", "VT_INT",
                                   "VT_I8", "VT_UI1", "VT_UI2", "VT_UI4", "VT_UINT",
                                   "VT_UI8", "VT_R4", "VT_R8", "VT_BSTR", "VT_LPWSTR"}
            converts == a.dims = 1 /\ \A k \in 1..Len(a.elems) : a.elems[k] # <<>>
            text(k) == IF a.vt \in {"VT_BSTR", "VT_LPWSTR"}
                       THEN IF PtrOf(a.elems[k]) = NullPtr THEN <<>>
                            ELSE DecodeUtf16(bstrs[Index(PtrOf(a.elems[k]))].units)
                       ELSE DisplayElem(a.vt, a.elems[k])
            n == Len(a.elems)
        IN  /\ last.out.ok <=> (supported /\ converts)
            /\ last.out.ok =>
                  /\ Head(last.out.val) = 91
                  /\ last.out.val[Len(last.out.val)] = 93
                  /\ n = 0 => last.out.val = <<91, 93>>
                  /\ n = 1 => last.out.val = <<91>> \o text(1) \o <<93>>
                  /\ n = 2 => last.out.val = <<91>> \o text(1) \o <<44, 32>> \o text(2) \o <<93>>
                  /\ n = 3 => last.out.val = <<91>> \o text(1) \o <<44, 32>> \o text(2)
                                                 \o <<44, 32>> \o text(3) \o <<93>>

----------------------------------------------------------------------------
(* Properties of SpecBounds *)

\* C30: for every pair of bounds in the i32 range with upper >= lower - 1, the
\* element count upper - lower + 1 that into_vector and into_interface_vector
\* compute in i32 does not overflow and is not negative.
ElementCountInRange ==
    last.op = "with_capacity" =>
        /\ ~ArithI32(last.src.upper, -1, last.src.lower).overflow
        /\ ~ArithI32(ArithI32(last.src.upper, -1, last.src.lower).val, 1, 1).overflow
        /\ last.out.ok
        /\ last.out.val >= 0

====
